---------------------------- MODULE Spec2Model ----------------------------
(***************************************************************************)
(* A model of the Flappy Flight two-player game: the seeded generator of   *)
(* src/utils.ts, the simulation step of src/components/GameEngine.tsx and  *)
(* the session orchestrator of src/App.tsx (first snapshot, lines 1-482).  *)
(*                                                                         *)
(* Numbers.  A JavaScript number is an IEEE-754 double.  The generator     *)
(* multiplies its state by 1103515245, which leaves the range of exactly   *)
(* representable integers (2^53), so the product is rounded.  Naturals     *)
(* that may exceed 2^31 are therefore kept as little-endian sequences of   *)
(* 13-bit limbs without leading zeros, and the rounding of the double is   *)
(* applied where the source multiplies and adds.                           *)
(*                                                                         *)
(* Vertical lengths and speeds are kept in fifths of a pixel, the unit in  *)
(* which GRAVITY (0.4), JUMP_STRENGTH (-7) and TERMINAL_VELOCITY (8) are   *)
(* all whole numbers.                                                      *)
(***************************************************************************)
EXTENDS Integers, Sequences, FiniteSets, TLC

---------------------------------------------------------------------------
(* Naturals as limb sequences, and the arithmetic of doubles on them.      *)

\* The base of a limb, 2^13: a product of two limbs and a sum of a few such
\* products stay below 2^31.
LimbBits == 13
Base == 2 ^ LimbBits

RECURSIVE Normalize(_)
\* Drop the leading (most significant) zero limbs.
Normalize(l) ==
    IF l = << >> THEN << >>
    ELSE IF l[Len(l)] = 0 THEN Normalize(SubSeq(l, 1, Len(l) - 1))
    ELSE l

\* The limbs of a natural below 2^31, least significant first.
Limbs(n) == Normalize(<<n % Base, (n \div Base) % Base, n \div (Base * Base)>>)

\* Limb i of l, zero beyond its length.
Limb(l, i) == IF i >= 1 /\ i <= Len(l) THEN l[i] ELSE 0

\* The natural a limb sequence stands for, when it is below 2^31.
LimbsValue(l) == Limb(l, 1) + Base * Limb(l, 2) + Base * Base * Limb(l, 3)

RECURSIVE Carry(_, _)
\* Bring digits below 2^30 back into limbs, with incoming carry c.
Carry(d, c) ==
    IF d = << >> THEN (IF c = 0 THEN << >> ELSE <<c % Base>> \o Carry(d, c \div Base))
    ELSE <<(d[1] + c) % Base>> \o Carry(Tail(d), (d[1] + c) \div Base)

\* Exact sum of two naturals.
BigAdd(a, b) ==
    LET n == IF Len(a) > Len(b) THEN Len(a) ELSE Len(b)
    IN  Normalize(Carry([i \in 1..n |-> Limb(a, i) + Limb(b, i)], 0))

\* Exact product of a natural and a natural below 2^39 (three limbs).
BigMul(a, b) ==
    IF a = << >> \/ b = << >> THEN << >>
    ELSE Normalize(Carry([k \in 1..(Len(a) + 2) |->
                             Limb(a, k) * Limb(b, 1) + Limb(a, k - 1) * Limb(b, 2)
                                 + Limb(a, k - 2) * Limb(b, 3)], 0))

\* Number of significant bits of a limb below 2^13, and of a natural.
LimbLen(t) == IF t = 0 THEN 0 ELSE CHOOSE n \in 1..LimbBits : 2 ^ (n - 1) <= t /\ t < 2 ^ n
BitLen(l) == IF l = << >> THEN 0 ELSE LimbBits * (Len(l) - 1) + LimbLen(l[Len(l)])

\* Bits of the mantissa of a double.
MantissaBits == 53

\* The double nearest to a natural: 53 significant bits, ties to even.
\* With k bits to drop, q whole limbs and r bits of limb q + 1 go.
ToDouble(l) ==
    IF BitLen(l) <= MantissaBits THEN l
    ELSE LET k      == BitLen(l) - MantissaBits
             q      == k \div LimbBits
             r      == k % LimbBits
             cut    == l[q + 1] % (2 ^ r)
             \* the highest dropped bit, and whether any lower one is set
             guard  == IF r = 0 THEN l[q] \div (2 ^ (LimbBits - 1))
                       ELSE cut \div (2 ^ (r - 1))
             sticky == IF r = 0
                       THEN l[q] % (2 ^ (LimbBits - 1)) # 0
                            \/ \E i \in 1..(q - 1) : l[i] # 0
                       ELSE cut % (2 ^ (r - 1)) # 0 \/ \E i \in 1..q : l[i] # 0
             odd    == (l[q + 1] \div (2 ^ r)) % 2 = 1
             up     == guard = 1 /\ (sticky \/ odd)
             kept   == [i \in 1..Len(l) |->
                          IF i <= q THEN 0
                          ELSE IF i = q + 1 THEN l[i] - cut + (IF up THEN 2 ^ r ELSE 0)
                          ELSE l[i]]
         IN  Normalize(Carry(kept, 0))

\* x % 2147483648 on a non-negative double holding an integer: exact.
Mod2p31(l) == Limb(l, 1) + Base * Limb(l, 2) + Base * Base * (Limb(l, 3) % 32)

---------------------------------------------------------------------------
(* SeededRNG, src/utils.ts.  The state of an instance is its seed field.   *)

\* The multiplier and increment of next().
LCG_A == 1103515245
LCG_C == 12345

\* constructor(seed): the instance keeps the seed it is given.
NewSeededRNG(seed) == seed

\* The step without its reduction modulo 2^31.
RngStepUnreduced(seed) ==
    ToDouble(BigAdd(ToDouble(BigMul(seed, Limbs(LCG_A))), Limbs(LCG_C)))

\* The seed field after next(): (seed * A + C) % 2^31 in double arithmetic.
\* The result is below 2^31.
RngStep(seed) ==
    Limbs(Mod2p31(ToDouble(BigAdd(ToDouble(BigMul(seed, Limbs(LCG_A))),
                                  Limbs(LCG_C)))))

\* floor(x * n / 2^31) for x < 2^31 and 0 < n < 2^13: what
\* Math.floor(next() * n) returns (seed / 2^31 and its product with n are
\* exact in a double).
ScaleFloor(x, n) ==
    LET p == BigMul(x, Limbs(n))
    IN  (Limb(p, 3) \div 32) + 256 * Limb(p, 4)

\* A range whose span is one too wide.
RangeValueWide(s, min, max) == ScaleFloor(s, max - min + 2) + min

\* The value range(min, max) returns when next() leaves the seed at s.
RangeValue(s, min, max) == ScaleFloor(s, max - min + 1) + min

\* Instances of SeededRNG on the heap: heap[i] is the seed field of instance
\* i.  A seed field shared by all the instances.
nextShared(heap, i) == [j \in DOMAIN heap |-> RngStep(heap[i])]

\* next() on instance i, lines 15-19: this.seed is the only field written.
next(heap, i) == [heap EXCEPT ![i] = RngStep(@)]

\* range(min, max) on instance i, lines 24-26: the heap after the call and
\* the value returned.
range(heap, i, min, max) ==
    LET h == next(heap, i)
    IN  [heap |-> h, value |-> RangeValue(h[i], min, max)]

---------------------------------------------------------------------------
(* Constants of the game, src/constants.ts.                                *)

CANVAS_WIDTH == 400
CANVAS_HEIGHT == 600
PIPE_SPEED == 3
PIPE_SPAWN_RATE == 100
PIPE_WIDTH == 52
PIPE_GAP == 160
BIRD_X == 60
BIRD_RADIUS == 16
GROUND_HEIGHT == 40

\* Fifths of a pixel in a pixel: the unit of y and velocity.
Fifths == 5
\* GRAVITY = 0.4, JUMP_STRENGTH = -7 and TERMINAL_VELOCITY = 8 pixels per
\* tick, in fifths of a pixel per tick.
GRAVITY == 2
JUMP_STRENGTH == 0 - 35
TERMINAL_VELOCITY == 40

\* The forgiveness margin of the collision test, in pixels.
Forgiveness == 4
\* Every second tick sends a network update.
UpdateEvery == 2
\* The countdown starts at 3.
CountdownFrom == 3

---------------------------------------------------------------------------
(* The wall clock.  Date.now() is a number of milliseconds above 2^40; the *)
(* model counts the clock in steps of one second from a fixed instant.     *)

\* 1793865618000 ms (2026-11-05T00:00:18Z): the instant at which both
\* applications are loaded.
TimeBase == BigAdd(BigMul(Limbs(1793865), Limbs(1000000)), Limbs(618000))

\* Date.now() when the clock of the machine stands at step n.
DateNow(n) == BigAdd(TimeBase, Limbs(1000 * n))

---------------------------------------------------------------------------
(* GameEngine, src/components/GameEngine.tsx.  The state of an engine is a *)
(* record of its refs: the bird (y, velocity, rotation), pipesRef,         *)
(* scoreRef, framesRef and rngRef, and gameSeed, the prop its resetGame    *)
(* closure holds.  rotation is eased by a real factor and only drawn: the  *)
(* model keeps whether it is the 0 of a reset or a value eased by a tick.  *)
(* Clouds, particles and the ground offset are drawn only and left out.    *)

\* useRef initial values, lines 49-58 (rngRef is set by the mount effects).
NewEngine(seedProp) ==
    [y |-> (CANVAS_HEIGHT \div 2) * Fifths, velocity |-> 0, rotation |-> 0,
     pipes |-> << >>, score |-> 0, frames |-> 0,
     rng |-> << >>, gameSeed |-> seedProp]

\* resetGame, lines 74-84: the seed is the gameSeed prop in a multiplayer
\* session and Date.now() otherwise.
resetGame(e, isMultiplayer, clock) ==
    [e EXCEPT !.y = (CANVAS_HEIGHT \div 2) * Fifths, !.velocity = 0, !.rotation = 0,
              !.pipes = << >>, !.score = 0, !.frames = 0,
              !.rng = NewSeededRNG(IF isMultiplayer THEN e.gameSeed ELSE DateNow(clock))]

\* The effect on game-state changes, lines 87-95.
StateEffect(e, gameState, isMultiplayer, clock) ==
    IF gameState \in {"START", "WAITING"} THEN resetGame(e, isMultiplayer, clock)
    ELSE IF gameState = "PLAYING" /\ Len(e.pipes) = 0
         THEN resetGame(e, isMultiplayer, clock)
    ELSE e

\* A jump that adds the impulse to the velocity.
jumpAdds(e, gameState) ==
    IF gameState # "PLAYING" THEN e ELSE [e EXCEPT !.velocity = @ + JUMP_STRENGTH]

\* A jump without the test of the game state.
jumpAlways(e, gameState) == [e EXCEPT !.velocity = JUMP_STRENGTH]

\* jump, lines 97-100, with the gameState prop of the last render (the
\* particles of lines 102-112 are drawn only).
jump(e, gameState) ==
    IF gameState # "PLAYING" THEN e ELSE [e EXCEPT !.velocity = JUMP_STRENGTH]

\* A bird update without the terminal velocity.
UpdateBirdFree(e) ==
    [e EXCEPT !.velocity = e.velocity + GRAVITY, !.y = e.y + e.velocity + GRAVITY,
              !.rotation = 1]

\* Update Bird, lines 130-138.
UpdateBird(e) ==
    LET v == IF e.velocity + GRAVITY > TERMINAL_VELOCITY THEN TERMINAL_VELOCITY
             ELSE e.velocity + GRAVITY
    IN  [e EXCEPT !.velocity = v, !.y = e.y + v, !.rotation = 1]

\* Spawn Pipes, lines 144-155: the band of the gap top and the new pipe.
minHeight == 50
maxHeight == CANVAS_HEIGHT - GROUND_HEIGHT - PIPE_GAP - minHeight

\* The engine after rngRef.current.range(minHeight, maxHeight) has left
\* the seed field at s and the pipe is pushed.
PushPipe(e, s) ==
    [e EXCEPT !.rng = s,
              !.pipes = Append(e.pipes,
                               [x |-> CANVAS_WIDTH,
                                topHeight |-> RangeValue(s, minHeight, maxHeight),
                                passed |-> FALSE])]

\* A spawn twice as frequent.
SpawnPipesOften(e) ==
    IF e.frames % (PIPE_SPAWN_RATE \div 2) = 0 THEN PushPipe(e, RngStep(e.rng)) ELSE e

SpawnPipes(e) ==
    IF e.frames % PIPE_SPAWN_RATE = 0 THEN PushPipe(e, RngStep(e.rng)) ELSE e

\* A collision test without the forgiveness margin.
HitsPipeExact(p, y) ==
    /\ BIRD_X + BIRD_RADIUS > p.x
    /\ BIRD_X - BIRD_RADIUS < p.x + PIPE_WIDTH
    /\ \/ y - BIRD_RADIUS * Fifths < p.topHeight * Fifths
       \/ y + BIRD_RADIUS * Fifths > (p.topHeight + PIPE_GAP) * Fifths

\* The collision test of one pipe against the bird at height y, lines 176-181.
HitsPipe(p, y) ==
    /\ BIRD_X + BIRD_RADIUS - Forgiveness > p.x
    /\ BIRD_X - BIRD_RADIUS + Forgiveness < p.x + PIPE_WIDTH
    /\ \/ y - (BIRD_RADIUS - Forgiveness) * Fifths < p.topHeight * Fifths
       \/ y + (BIRD_RADIUS - Forgiveness) * Fifths > (p.topHeight + PIPE_GAP) * Fifths

\* Remove i-th element of a sequence (splice(i, 1)).
Splice(seq, i) == SubSeq(seq, 1, i - 1) \o SubSeq(seq, i + 1, Len(seq))

RECURSIVE PipeLoopNoFlag(_, _)
\* A pipe loop that counts an obstacle without marking it passed.
PipeLoopNoFlag(r, i) ==
    IF i = 0 THEN r
    ELSE LET p == [r.pipes[i] EXCEPT !.x = @ - PIPE_SPEED]
         IN  IF p.x + PIPE_WIDTH < 0
             THEN PipeLoopNoFlag([r EXCEPT !.pipes = Splice(r.pipes, i)], i - 1)
             ELSE LET scores == ~p.passed /\ p.x + PIPE_WIDTH < BIRD_X - BIRD_RADIUS
                      score  == IF scores THEN r.score + 1 ELSE r.score
                      calls1 == IF scores
                                THEN Append(r.calls, [fn |-> "onScoreUpdate", score |-> score])
                                ELSE r.calls
                      calls2 == IF HitsPipe(p, r.y)
                                THEN Append(calls1, [fn |-> "onGameOver", score |-> score])
                                ELSE calls1
                  IN  PipeLoopNoFlag([r EXCEPT !.pipes[i] = p,
                                               !.score = score, !.calls = calls2], i - 1)

RECURSIVE PipeLoopEarly(_, _)
\* A pipe loop that removes an obstacle as soon as its trailing edge is
\* behind the centre of the avatar.
PipeLoopEarly(r, i) ==
    IF i = 0 THEN r
    ELSE LET p == [r.pipes[i] EXCEPT !.x = @ - PIPE_SPEED]
         IN  IF p.x + PIPE_WIDTH < BIRD_X
             THEN PipeLoopEarly([r EXCEPT !.pipes = Splice(r.pipes, i)], i - 1)
             ELSE LET scores == ~p.passed /\ p.x + PIPE_WIDTH < BIRD_X - BIRD_RADIUS
                      score  == IF scores THEN r.score + 1 ELSE r.score
                      calls1 == IF scores
                                THEN Append(r.calls, [fn |-> "onScoreUpdate", score |-> score])
                                ELSE r.calls
                      calls2 == IF HitsPipe(p, r.y)
                                THEN Append(calls1, [fn |-> "onGameOver", score |-> score])
                                ELSE calls1
                  IN  PipeLoopEarly([r EXCEPT !.pipes[i] = [p EXCEPT !.passed = @ \/ scores],
                                              !.score = score, !.calls = calls2], i - 1)

RECURSIVE PipeLoop(_, _)
\* Update Pipes & Collision, lines 158-184, from index i down to 1.  r holds
\* the pipes, the score counter and the callbacks made so far.
PipeLoop(r, i) ==
    IF i = 0 THEN r
    ELSE LET p == [r.pipes[i] EXCEPT !.x = @ - PIPE_SPEED]
         IN  IF p.x + PIPE_WIDTH < 0
             THEN PipeLoop([r EXCEPT !.pipes = Splice(r.pipes, i)], i - 1)
             ELSE LET scores == ~p.passed /\ p.x + PIPE_WIDTH < BIRD_X - BIRD_RADIUS
                      score  == IF scores THEN r.score + 1 ELSE r.score
                      calls1 == IF scores
                                THEN Append(r.calls, [fn |-> "onScoreUpdate", score |-> score])
                                ELSE r.calls
                      calls2 == IF HitsPipe(p, r.y)
                                THEN Append(calls1, [fn |-> "onGameOver", score |-> score])
                                ELSE calls1
                  IN  PipeLoop([r EXCEPT !.pipes[i] = [p EXCEPT !.passed = @ \/ scores],
                                         !.score = score, !.calls = calls2], i - 1)

\* A ground and ceiling test that leaves the bird above the top.
GroundCeilingOpen(r, isMultiplayer) ==
    LET ground == r.y + BIRD_RADIUS * Fifths >= (CANVAS_HEIGHT - GROUND_HEIGHT) * Fifths
        calls1 == IF ground
                  THEN Append(r.calls, [fn |-> "onGameOver", score |-> r.score])
                  ELSE r.calls
        calls2 == IF isMultiplayer /\ r.frames % UpdateEvery = 0
                  THEN Append(calls1, [fn |-> "onNetworkUpdate", y |-> r.y, score |-> r.score])
                  ELSE calls1
    IN  [r EXCEPT !.calls = calls2]

\* Ground/Ceiling Collision and Send Network Update, lines 187-198.
GroundCeiling(r, isMultiplayer) ==
    LET ground == r.y + BIRD_RADIUS * Fifths >= (CANVAS_HEIGHT - GROUND_HEIGHT) * Fifths
        ceil   == r.y - BIRD_RADIUS * Fifths <= 0
        y      == IF ceil THEN BIRD_RADIUS * Fifths ELSE r.y
        calls1 == IF ground
                  THEN Append(r.calls, [fn |-> "onGameOver", score |-> r.score])
                  ELSE r.calls
        calls2 == IF isMultiplayer /\ r.frames % UpdateEvery = 0
                  THEN Append(calls1, [fn |-> "onNetworkUpdate", y |-> y, score |-> r.score])
                  ELSE calls1
    IN  [r EXCEPT !.y = y, !.velocity = IF ceil THEN 0 ELSE @, !.calls = calls2]

\* The engine at the head of the pipe loop, no callback called yet.
NoCalls(e) ==
    [y |-> e.y, velocity |-> e.velocity, rotation |-> e.rotation,
     pipes |-> e.pipes, score |-> e.score, frames |-> e.frames,
     rng |-> e.rng, gameSeed |-> e.gameSeed, calls |-> << >>]

UpdatePipes(r) == PipeLoop(r, Len(r.pipes))

\* One pass of render in PLAYING, lines 126-198: the engine after it, with
\* the calls it made to the App's callbacks, in order, in field calls.
PlayingTick(e, isMultiplayer) ==
    GroundCeiling(UpdatePipes(NoCalls(SpawnPipes(UpdateBird([e EXCEPT !.frames = @ + 1])))),
                  isMultiplayer)

\* The engine fields of a tick's result.
EngineOf(r) ==
    [y |-> r.y, velocity |-> r.velocity, rotation |-> r.rotation,
     pipes |-> r.pipes, score |-> r.score, frames |-> r.frames,
     rng |-> r.rng, gameSeed |-> r.gameSeed]

---------------------------------------------------------------------------
(* App, src/App.tsx.  The state of an application is a record of its       *)
(* useState values (gameState, score, highScore, countdown, roomCode,      *)
(* isMultiplayer, isHost, opponentScore, isConnected) and its refs         *)
(* (peerRef and connRef: whether they hold an object; opponentBirdRef,     *)
(* whose y and rotation are drawn only and left out; gameSeedRef).  A      *)
(* handler is an operator from the state its closure saw at the last       *)
(* render to the state after its updates.                                  *)

\* The two applications: h is the one whose user plays alone or creates a
\* room, g the one whose user joins.
Apps == {"h", "g"}
Other(p) == IF p = "h" THEN "g" ELSE "h"

\* The room code Math.random() yields, line 216.
RoomCode == "K3X9P"

\* useState and useRef initial values, lines 30-52.
NewApp(clock) ==
    [gameState |-> "START", score |-> 0, highScore |-> 0, countdown |-> CountdownFrom,
     roomCode |-> "", isMultiplayer |-> FALSE, isHost |-> FALSE,
     opponentScore |-> 0, isConnected |-> FALSE,
     peerRef |-> FALSE, connRef |-> FALSE,
     opponentBird |-> [isAlive |-> TRUE, score |-> 0],
     gameSeedRef |-> DateNow(clock)]

\* The tests `isMultiplayer && connRef.current && isConnected` of lines 361
\* and 387, and of 333 and 403 without the role.
CanSend(a) == a.isMultiplayer /\ a.connRef /\ a.isConnected

\* A quit that leaves the room code on display.
handleQuitKeepsRoom(a) ==
    [a EXCEPT !.peerRef = FALSE, !.connRef = FALSE,
              !.isMultiplayer = FALSE, !.isHost = FALSE, !.isConnected = FALSE,
              !.gameState = "START"]

\* handleQuit, lines 313-327 (statusLog is shown only and left out).
handleQuit(a) ==
    [a EXCEPT !.peerRef = FALSE, !.connRef = FALSE,
              !.isMultiplayer = FALSE, !.isHost = FALSE, !.isConnected = FALSE,
              !.gameState = "START", !.roomCode = ""]

\* A start test that does not ask for the connection.
StartsUnconnected(a) == a.isMultiplayer /\ a.isHost

\* handleStart, lines 331-352.
StartsMatch(a) == a.isMultiplayer /\ a.isHost /\ a.connRef /\ a.isConnected

handleStart(a, clock) ==
    IF a.isMultiplayer
    THEN IF StartsMatch(a)
         THEN [a EXCEPT !.gameSeedRef = DateNow(clock),
                        !.countdown = CountdownFrom, !.gameState = "COUNTDOWN",
                        !.score = 0, !.opponentScore = 0,
                        !.opponentBird.isAlive = TRUE]
         ELSE a
    ELSE [a EXCEPT !.countdown = CountdownFrom, !.gameState = "COUNTDOWN", !.score = 0]

handleStartSends(a, clock) ==
    IF StartsMatch(a) THEN <<[type |-> "START", seed |-> DateNow(clock)]>> ELSE << >>

\* A restart that begins a match for whoever asks.
handleRestartAnyone(a, clock) ==
    [a EXCEPT !.countdown = CountdownFrom, !.gameState = "COUNTDOWN", !.score = 0]

\* handleRestart, lines 396-412.
handleRestart(a, clock) ==
    IF a.isMultiplayer
    THEN IF a.isHost THEN handleStart(a, clock) ELSE a
    ELSE [a EXCEPT !.countdown = CountdownFrom, !.gameState = "COUNTDOWN", !.score = 0]

handleRestartSends(a, clock) ==
    IF a.isMultiplayer
    THEN IF a.isHost THEN handleStartSends(a, clock)
         ELSE IF a.connRef /\ a.isConnected THEN <<[type |-> "RESTART"]>> ELSE << >>
    ELSE << >>

\* handleGameOver, lines 354-379, called with the closure state c; a is the
\* state with the updates queued so far in this event.
handleGameOver(c, a, finalScore) ==
    LET a1 == IF finalScore > c.highScore THEN [a EXCEPT !.highScore = finalScore] ELSE a
    IN  IF CanSend(c)
        THEN [a1 EXCEPT !.gameState = IF a.opponentBird.isAlive THEN "SPECTATING"
                                      ELSE "GAME_OVER"]
        ELSE [a1 EXCEPT !.gameState = "GAME_OVER"]

\* A death that sends DIE without looking at isConnected.
handleGameOverSendsUnconnected(c, finalScore) ==
    IF c.isMultiplayer /\ c.connRef
    THEN <<[type |-> "DIE", score |-> finalScore]>> ELSE << >>

\* The DIE message of handleGameOver, lines 361-366.
handleGameOverSends(c, finalScore) ==
    IF CanSend(c) THEN <<[type |-> "DIE", score |-> finalScore]>> ELSE << >>

\* handleScoreUpdate, lines 381-383.
handleScoreUpdate(a, newScore) == [a EXCEPT !.score = newScore]

\* handleNetworkUpdate, lines 386-394 (the rotation it sends is drawn only).
handleNetworkUpdateSends(c, y, s) ==
    IF CanSend(c) THEN <<[type |-> "UPDATE", y |-> y, s |-> s]>> ELSE << >>

\* handleOpen, lines 96-107.
handleOpen(a) ==
    IF a.isConnected THEN a
    ELSE [a EXCEPT !.gameState = "WAITING", !.isConnected = TRUE]

\* A data handler whose DIE branch ends the game of a peer still playing.
OnDataDieEnds(a, msg) ==
    IF msg.type = "START"
    THEN [a EXCEPT !.gameSeedRef = msg.seed,
                   !.countdown = CountdownFrom, !.gameState = "COUNTDOWN",
                   !.score = 0, !.opponentScore = 0,
                   !.opponentBird.isAlive = TRUE, !.opponentBird.score = 0]
    ELSE IF msg.type = "UPDATE"
    THEN [a EXCEPT !.opponentBird.score = msg.s,
                   !.opponentBird.isAlive = TRUE, !.opponentScore = msg.s]
    ELSE IF msg.type = "DIE"
    THEN [a EXCEPT !.opponentBird.isAlive = FALSE, !.opponentBird.score = msg.score,
                   !.opponentScore = msg.score,
                   !.gameState = IF @ \in {"SPECTATING", "PLAYING"}
                                 THEN "GAME_OVER" ELSE @]
    ELSE a

\* A data handler whose START branch leaves gameSeedRef alone.
OnDataKeepsSeed(a, msg) ==
    IF msg.type = "START"
    THEN [a EXCEPT !.countdown = CountdownFrom, !.gameState = "COUNTDOWN",
                   !.score = 0, !.opponentScore = 0,
                   !.opponentBird.isAlive = TRUE, !.opponentBird.score = 0]
    ELSE IF msg.type = "UPDATE"
    THEN [a EXCEPT !.opponentBird.score = msg.s,
                   !.opponentBird.isAlive = TRUE, !.opponentScore = msg.s]
    ELSE IF msg.type = "DIE"
    THEN [a EXCEPT !.opponentBird.isAlive = FALSE, !.opponentBird.score = msg.score,
                   !.opponentScore = msg.score,
                   !.gameState = IF @ = "SPECTATING" THEN "GAME_OVER" ELSE @]
    ELSE a

\* The data handler of setupConnection, lines 165-202.
OnData(a, msg) ==
    IF msg.type = "START"
    THEN [a EXCEPT !.gameSeedRef = msg.seed,
                   !.countdown = CountdownFrom, !.gameState = "COUNTDOWN",
                   !.score = 0, !.opponentScore = 0,
                   !.opponentBird.isAlive = TRUE, !.opponentBird.score = 0]
    ELSE IF msg.type = "UPDATE"
    THEN [a EXCEPT !.opponentBird.score = msg.s,
                   !.opponentBird.isAlive = TRUE, !.opponentScore = msg.s]
    ELSE IF msg.type = "DIE"
    THEN [a EXCEPT !.opponentBird.isAlive = FALSE, !.opponentBird.score = msg.score,
                   !.opponentScore = msg.score,
                   !.gameState = IF @ = "SPECTATING" THEN "GAME_OVER" ELSE @]
    ELSE a

\* The close and error handlers of a connection, lines 204-212.
OnConnClose(a) == [a EXCEPT !.isConnected = FALSE]

\* handleCreateGame, lines 215-229.
handleCreateGame(a) ==
    [a EXCEPT !.roomCode = RoomCode, !.isMultiplayer = TRUE, !.isHost = TRUE,
              !.isConnected = FALSE, !.gameState = "WAITING", !.peerRef = TRUE]

\* handleJoinGame, lines 256-267.
handleJoinGame(a) ==
    [a EXCEPT !.isMultiplayer = TRUE, !.isHost = FALSE, !.isConnected = FALSE,
              !.gameState = "JOINING", !.peerRef = TRUE]

\* setupConnection, line 93.
setupConnection(a) == [a EXCEPT !.connRef = TRUE]

\* What the Overlay shows, src/components/Overlay.tsx: the START GAME button
\* (lines 101, 117-123), the buttons that quit (lines 126-135, 145, 163,
\* 222-226) and PLAY AGAIN (line 221).
StartGameShown(a) == a.gameState = "WAITING" /\ a.isHost /\ a.isConnected
QuitShown(a) ==
    \/ a.gameState \in {"WAITING", "JOINING"}
    \/ a.gameState = "GAME_OVER" /\ a.isMultiplayer
RestartShown(a) == a.gameState = "GAME_OVER"

\* The result badge of the Overlay, lines 213-217.
ResultBadge(a) ==
    IF a.score > a.opponentScore THEN "YOU WON!"
    ELSE IF a.score < a.opponentScore THEN "YOU LOST!"
    ELSE "TIED!"

---------------------------------------------------------------------------
(* Rendering.  After an event has changed a useState value the App renders *)
(* again: the engine gets the props of that render and the effects whose   *)
(* dependencies changed run, before the next event.                        *)

\* The useState values of an application: a render follows a change of one.
Rendered(a) ==
    <<a.gameState, a.score, a.highScore, a.countdown, a.roomCode, a.isMultiplayer,
      a.isHost, a.opponentScore, a.isConnected>>

\* One render pass from state a0 to a1 with engine e: the gameSeed prop is
\* gameSeedRef.current (App.tsx line 424) and the engine's effect of lines
\* 87-95 runs when gameState or resetGame (isMultiplayer, gameSeed) changed.
RenderEngine(a0, a1, e, clock) ==
    IF Rendered(a0) = Rendered(a1) THEN e
    ELSE LET e1 == [e EXCEPT !.gameSeed = a1.gameSeedRef]
         IN  IF \/ a0.gameState # a1.gameState
                \/ a0.isMultiplayer # a1.isMultiplayer
                \/ e.gameSeed # e1.gameSeed
             THEN StateEffect(e1, a1.gameState, a1.isMultiplayer, clock)
             ELSE e1

\* An effect that starts the play one expiry early.
CountdownEffectEarly(a) ==
    IF a.gameState = "COUNTDOWN" /\ a.countdown <= 1
    THEN [a EXCEPT !.gameState = "PLAYING"]
    ELSE a

\* The countdown effect, lines 79-88, after a render: at 0 it sets PLAYING.
CountdownEffect(a) ==
    IF a.gameState = "COUNTDOWN" /\ a.countdown = 0
    THEN [a EXCEPT !.gameState = "PLAYING"]
    ELSE a

\* The application and the engine after the renders that follow an event
\* which took the application from a0 to a1.
Commit(a0, a1, e, clock) ==
    LET e1 == RenderEngine(a0, a1, e, clock)
        a2 == CountdownEffect(a1)
    IN  [app |-> a2, eng |-> RenderEngine(a1, a2, e1, clock)]

---------------------------------------------------------------------------
(* The state of the two machines and of the link between them.             *)

VARIABLES
    app,    \* app[p]: the App state of application p
    eng,    \* eng[p]: the GameEngine state of application p
    now,    \* now[p]: the clock of p's machine, in steps of DateNow
    peer,   \* peer[p]: the Peer object of p: "none", "new" or "open"
    conn,   \* conn[p]: the DataConnection of p: "none", "connecting", "open",
            \*          "lost" (the other end has closed, the close event is
            \*          still to come) or "closed"
    chan,   \* chan[p]: the messages in flight to p, oldest first
    lead,   \* the PLAYING ticks h has run more than g since both were last
            \* in a match together
    gen,    \* two SeededRNG instances driven side by side: the seed they
            \* were constructed with, their seed fields (heap), the
            \* arguments of the range calls made (args) and what the calls
            \* of each returned (out)
    last,   \* the last event handled: which, by whom, from which game
            \* state, the types of the messages it sent and its argument
    net     \* the transport under the connections of one application, for
            \* the study of its timers: whose (who), the DataConnection
            \* objects it has set up (obj) and the state its handlers of
            \* the current session closed over (seen)

vars == <<app, eng, now, peer, conn, chan, lead, gen, last, net>>

\* Bounds of the model: the clock step after which the users start no new
\* match, the backlog of a channel beyond which its sender waits, and the
\* number of ticks one machine may run ahead of the other while both are in
\* a match (both render at the frame rate of a display).
MaxNow == 2
MaxQueue == 2
MaxLead == 1

\* The input of the players: the frames after which the player of p may
\* tap, and those after which a player who is still in the air does tap.
TapFrames(p) == IF p = "g" THEN {10, 50, 90, 130, 170, 200} ELSE {10, 50}
KeepsUp(p) == IF p = "g" THEN {50, 90, 130, 170} ELSE {50}

\* The height the idle animation of lines 200-205 puts the bird at
\* (CANVAS_HEIGHT / 2 + sin(t) * 10), sampled where the sine is 0.
IdleYs == {(CANVAS_HEIGHT \div 2) * Fifths}

Idle == [op |-> "none", p |-> "none", pre |-> "none", sent |-> << >>, arg |-> << >>]
Event(op, p, sent, arg) ==
    [op |-> op, p |-> p, pre |-> app[p].gameState, sent |-> sent, arg |-> arg]

RECURSIVE TypesOf(_)
TypesOf(msgs) == IF msgs = << >> THEN << >> ELSE <<msgs[1].type>> \o TypesOf(Tail(msgs))

\* The mount of App and GameEngine: the first render and its effects.
Mount(clock) ==
    LET a == NewApp(clock)
    IN  [app |-> a,
         eng |-> StateEffect(NewEngine(a.gameSeedRef), a.gameState, a.isMultiplayer, clock)]

\* Two instances constructed with the same seed.
Instances == {"a", "b"}
NewGen(seed) ==
    [seed |-> seed,
     heap |-> [i \in Instances |-> NewSeededRNG(seed)],
     args |-> << >>,
     out |-> [i \in Instances |-> << >>]]

\* No connection object under study.
NoNet == [who |-> "none", obj |-> << >>,
          seen |-> [gameState |-> "START", isConnected |-> FALSE]]

Init ==
    /\ app = [p \in Apps |-> Mount(0).app]
    /\ eng = [p \in Apps |-> Mount(0).eng]
    /\ now = [p \in Apps |-> 0]
    /\ peer = [p \in Apps |-> "none"]
    /\ conn = [p \in Apps |-> "none"]
    /\ chan = [p \in Apps |-> << >>]
    /\ lead = 0
    /\ gen = NewGen(DateNow(0))
    /\ net = NoNet
    /\ last = Idle

\* p's connection sends msgs: they reach the other end's channel while p's
\* connection is open and the other end has not closed.
Sent(p, msgs) ==
    IF conn[p] = "open" /\ conn[Other(p)] \in {"connecting", "open"}
    THEN [chan EXCEPT ![Other(p)] = @ \o msgs]
    ELSE chan

\* The event took p's application from app[p] to a1: render, then record.
Committed(p, c) ==
    /\ app' = [app EXCEPT ![p] = c.app]
    /\ eng' = [eng EXCEPT ![p] = c.eng]

Finish(p, a1, e, clock) == Committed(p, Commit(app[p], a1, e, clock))

\* connRef.current?.close() and peerRef.current?.destroy() of handleQuit:
\* p's objects are gone, nothing more reaches p's handlers, and the other
\* end of an open connection will get a close event.
TearDown(p) ==
    /\ peer' = [peer EXCEPT ![p] = "none"]
    /\ conn' = IF conn[p] \in {"connecting", "open"}
               THEN [conn EXCEPT ![p] = "none",
                                 ![Other(p)] = IF @ = "open" THEN "lost"
                                               ELSE IF @ = "connecting" THEN "closed"
                                               ELSE @]
               ELSE [conn EXCEPT ![p] = "none"]
    /\ chan' = [chan EXCEPT ![p] = << >>]

---------------------------------------------------------------------------
(* The events.                                                             *)

\* A start or restart action of p begins a match: time has passed since the
\* last one began, and no more than MaxNow begin.
BeginsMatch(a) == a.isMultiplayer => StartsMatch(a)
Clock(p) ==
    /\ BeginsMatch(app[p]) => now[p] < MaxNow
    /\ now' = [now EXCEPT ![p] = IF BeginsMatch(app[p]) THEN @ + 1 ELSE @]

\* Both are in the countdown or the play of a match of the same session.
InMatch(p) == app[p].isMultiplayer /\ app[p].gameState \in {"COUNTDOWN", "PLAYING"}
Together == InMatch("h") /\ InMatch("g") /\ conn["h"] = "open" /\ conn["g"] = "open"
\* p may run a PLAYING tick, and the lead after it.  The close event of a
\* connection whose other end has closed comes before p's next frame.
MayTick(p) ==
    /\ eng[p].frames \in KeepsUp(p) => eng[p].velocity = JUMP_STRENGTH
    /\ conn[p] # "lost"
    /\ Together => IF p = "h" THEN lead < MaxLead ELSE lead > 0 - MaxLead
Ticked(p) == IF Together THEN (IF p = "h" THEN lead + 1 ELSE lead - 1) ELSE 0

\* The user of p clicks SOLO PLAY (Overlay line 72): handleStart.
SoloStart(p) ==
    /\ UNCHANGED <<gen, net>>
    /\ app[p].gameState = "START" /\ app[Other(p)].gameState = "START"
    /\ Clock(p)
    /\ Finish(p, handleStart(app[p], now'[p]), eng[p], now'[p])
    /\ last' = Event("start", p, << >>, << >>)
    /\ UNCHANGED <<peer, conn, chan, lead>>

\* The user of h clicks CREATE ROOM (Overlay line 79): handleCreateGame.
CreateGame(p) ==
    /\ UNCHANGED <<gen, net>>
    /\ p = "h" /\ app[p].gameState = "START" /\ app[Other(p)].gameState = "START"
    /\ Finish(p, handleCreateGame(app[p]), eng[p], now[p])
    /\ peer' = [peer EXCEPT ![p] = "new"]
    /\ last' = Event("create", p, << >>, << >>)
    /\ UNCHANGED <<now, conn, chan, lead>>

\* The user of g clicks JOIN with a code (Overlay line 92): handleJoinGame.
JoinGame(p) ==
    /\ UNCHANGED <<gen, net>>
    /\ p = "g" /\ app[p].gameState = "START"
    /\ app[Other(p)].gameState = "WAITING" /\ conn[Other(p)] \in {"none", "closed"}
    /\ Finish(p, handleJoinGame(app[p]), eng[p], now[p])
    /\ peer' = [peer EXCEPT ![p] = "new"]
    /\ last' = Event("join", p, << >>, << >>)
    /\ UNCHANGED <<now, conn, chan, lead>>

\* The open event of the Peer.  The host logs it (lines 230-232); the guest
\* connects to the room and sets the connection up (lines 269-299).
PeerOpen(p) ==
    /\ UNCHANGED <<gen, net>>
    /\ peer[p] = "new"
    /\ peer' = [peer EXCEPT ![p] = "open"]
    /\ IF app[p].isHost
       THEN UNCHANGED <<app, eng, conn>>
       ELSE /\ Finish(p, setupConnection(app[p]), eng[p], now[p])
            /\ conn' = [conn EXCEPT ![p] = "connecting"]
    /\ last' = Event("peerOpen", p, << >>, << >>)
    /\ UNCHANGED <<now, chan, lead>>

\* The connection event of the host's Peer, lines 234-239: the guest's
\* connection attempt arrives and the host sets its end up.
Connection(p) ==
    /\ UNCHANGED <<gen, net>>
    /\ app[p].isHost /\ peer[p] = "open"
    /\ conn[Other(p)] = "connecting" /\ conn[p] \in {"none", "closed"}
    /\ conn' = [conn EXCEPT ![p] = "connecting"]
    /\ Finish(p, setupConnection(app[p]), eng[p], now[p])
    /\ last' = Event("connection", p, << >>, << >>)
    /\ UNCHANGED <<now, peer, chan, lead>>

\* The open event of p's connection, line 162: handleOpen.
ConnOpen(p) ==
    /\ UNCHANGED <<gen, net>>
    /\ conn[p] = "connecting" /\ conn[Other(p)] \in {"connecting", "open"}
    /\ conn' = [conn EXCEPT ![p] = "open"]
    /\ Finish(p, handleOpen(app[p]), eng[p], now[p])
    /\ last' = Event("open", p, << >>, << >>)
    /\ UNCHANGED <<now, peer, chan, lead>>

\* The start action of the host in WAITING (Overlay line 122): handleStart.
StartGame(p) ==
    /\ UNCHANGED <<gen, net>>
    /\ app[p].gameState = "WAITING" /\ app[p].isHost
    /\ Clock(p)
    /\ Finish(p, handleStart(app[p], now'[p]), eng[p], now'[p])
    /\ chan' = Sent(p, handleStartSends(app[p], now'[p]))
    /\ last' = Event("start", p, TypesOf(handleStartSends(app[p], now'[p])), << >>)
    /\ lead' = 0
    /\ UNCHANGED <<peer, conn>>

\* The user clicks the button of the game-over panel (Overlay line 221):
\* handleRestart.
Restart(p) ==
    /\ UNCHANGED <<gen, net>>
    /\ RestartShown(app[p])
    /\ Len(chan[Other(p)]) < MaxQueue
    /\ Clock(p)
    /\ Finish(p, handleRestart(app[p], now'[p]), eng[p], now'[p])
    /\ chan' = Sent(p, handleRestartSends(app[p], now'[p]))
    /\ last' = Event("restart", p, TypesOf(handleRestartSends(app[p], now'[p])), << >>)
    /\ lead' = IF BeginsMatch(app[p]) THEN 0 ELSE lead
    /\ UNCHANGED <<peer, conn>>

\* The countdown timer of lines 81-83 fires: setCountdown(c => c - 1).
CountdownTimer(p) ==
    /\ UNCHANGED <<gen, net>>
    /\ app[p].gameState = "COUNTDOWN" /\ app[p].countdown > 0
    /\ Finish(p, [app[p] EXCEPT !.countdown = @ - 1], eng[p], now[p])
    /\ last' = Event("countdown", p, << >>, << >>)
    /\ UNCHANGED <<now, peer, conn, chan, lead>>

RECURSIVE ApplyCalls(_, _, _)
\* The App's callbacks for the calls of one tick, in order, all with the
\* closure state c: r holds the state with the updates queued so far and
\* the messages sent.
ApplyCalls(c, r, calls) ==
    IF calls = << >> THEN r
    ELSE LET k == calls[1]
             r1 == IF k.fn = "onScoreUpdate"
                   THEN [r EXCEPT !.app = handleScoreUpdate(r.app, k.score)]
                   ELSE IF k.fn = "onGameOver"
                   THEN [r EXCEPT !.app = handleGameOver(c, r.app, k.score),
                                  !.sent = @ \o handleGameOverSends(c, k.score)]
                   ELSE [r EXCEPT !.sent = @ \o handleNetworkUpdateSends(c, k.y, k.score)]
         IN  ApplyCalls(c, r1, Tail(calls))

\* The calls of onGameOver among the calls of one tick.
GameOvers(calls) == {i \in 1..Len(calls) : calls[i].fn = "onGameOver"}

\* A PLAYING tick of p whose pass of render is t and whose callbacks left r.
Called(p, t, r) ==
    /\ CanSend(app[p]) => Len(chan[Other(p)]) < MaxQueue
    /\ MayTick(p)
    /\ lead' = IF GameOvers(t.calls) = {} THEN Ticked(p) ELSE 0
    /\ Finish(p, r.app, EngineOf(t), now[p])
    /\ chan' = Sent(p, r.sent)
    /\ last' = IF GameOvers(t.calls) = {} THEN Idle
               ELSE Event("die", p, TypesOf(r.sent),
                          <<t.calls[CHOOSE i \in GameOvers(t.calls) : TRUE].score>>)
    /\ UNCHANGED <<now, peer, conn>>

Played(p, t) == Called(p, t, ApplyCalls(app[p], [app |-> app[p], sent |-> << >>], t.calls))

\* A pass of render that runs the update logic in every game state.
TickUngated(p) ==
    /\ UNCHANGED <<gen, net>>
    /\ Played(p, PlayingTick(eng[p], app[p].isMultiplayer))

\* One pass of render, GameEngine.tsx lines 124-206, with the App's
\* callbacks it calls.
Tick(p) ==
    /\ UNCHANGED <<gen, net>>
    /\ IF app[p].gameState = "PLAYING"
       THEN Played(p, PlayingTick(eng[p], app[p].isMultiplayer))
       ELSE IF app[p].gameState \in {"START", "WAITING"}
       THEN /\ \E y \in IdleYs : eng' = [eng EXCEPT ![p].y = y, ![p].rotation = 0]
            /\ last' = Idle
            /\ UNCHANGED <<app, now, peer, conn, chan, lead>>
       ELSE /\ last' = Idle
            /\ UNCHANGED <<app, eng, now, peer, conn, chan, lead>>

\* The player taps (key, touch or mouse, lines 396-423): jump.  In PLAYING
\* the player taps at the frames of TapFrames; in the other states, at the
\* events of the player's own screen.  The event records the velocity the
\* tap found.
Jump(p) ==
    /\ UNCHANGED <<gen, net>>
    /\ IF app[p].gameState = "PLAYING" THEN eng[p].frames \in TapFrames(p)
       ELSE last.p = p
    /\ eng' = [eng EXCEPT ![p] = jump(@, app[p].gameState)]
    /\ last' = Event("jump", p, << >>, <<eng[p].velocity>>)
    /\ UNCHANGED <<app, now, peer, conn, chan, lead>>

\* A message reaches p: the data handler.
Receive(p) ==
    /\ UNCHANGED <<gen, net>>
    /\ conn[p] \in {"open", "lost"} /\ chan[p] # << >>
    /\ LET msg == Head(chan[p])
       IN  /\ Finish(p, OnData(app[p], msg), eng[p], now[p])
           /\ last' = IF msg.type = "UPDATE" THEN Idle
                      ELSE Event("recv", p, << >>, <<msg>>)
    /\ chan' = [chan EXCEPT ![p] = Tail(@)]
    /\ UNCHANGED <<now, peer, conn, lead>>

\* The user clicks a button that quits: handleQuit.
Quit(p) ==
    /\ UNCHANGED <<gen, net>>
    /\ QuitShown(app[p])
    /\ Finish(p, handleQuit(app[p]), eng[p], now[p])
    /\ TearDown(p)
    /\ last' = Event("quit", p, << >>, << >>)
    /\ lead' = 0
    /\ UNCHANGED now

\* An error handler of the Peer that reports the error and goes on.
PeerErrorReported(p) ==
    /\ UNCHANGED <<gen, net>>
    /\ peer[p] # "none"
    /\ last' = Event("peerError", p, << >>, << >>)
    /\ UNCHANGED <<app, eng, now, peer, conn, chan, lead>>

\* The error event of p's Peer, lines 241-249 and 301-306: handleQuit.
PeerError(p) ==
    /\ UNCHANGED <<gen, net>>
    /\ peer[p] # "none"
    /\ Finish(p, handleQuit(app[p]), eng[p], now[p])
    /\ TearDown(p)
    /\ last' = Event("peerError", p, << >>, << >>)
    /\ lead' = 0
    /\ UNCHANGED now

\* The close event of p's connection after the other end has closed.
ConnClose(p) ==
    /\ UNCHANGED <<gen, net>>
    /\ conn[p] = "lost"
    /\ conn' = [conn EXCEPT ![p] = "closed"]
    /\ chan' = [chan EXCEPT ![p] = << >>]
    /\ Finish(p, OnConnClose(app[p]), eng[p], now[p])
    /\ last' = Event("connClose", p, << >>, << >>)
    /\ UNCHANGED <<now, peer, lead>>

Next ==
    \E p \in Apps :
        \/ SoloStart(p) \/ CreateGame(p) \/ JoinGame(p)
        \/ PeerOpen(p) \/ Connection(p) \/ ConnOpen(p)
        \/ StartGame(p) \/ Restart(p) \/ CountdownTimer(p)
        \/ Tick(p) \/ Jump(p) \/ Receive(p)
        \/ Quit(p) \/ PeerError(p) \/ ConnClose(p)

Spec == Init /\ [][Next]_vars

---------------------------------------------------------------------------
(* SeededRNG on its own: two instances constructed with one seed and       *)
(* driven through range calls, each instance at its own pace.              *)

\* Bound of the model: the range calls made on an instance.
MaxCalls == 3

\* The seeds tried: small ones, the ends of the 31-bit range and the clock
\* values the applications seed with.
RngSeeds ==
    {Limbs(0), Limbs(1), Limbs(12345), Limbs(2147483647),
     BigAdd(Limbs(2147483647), Limbs(1))}
    \cup {DateNow(n) : n \in 0..MaxNow}

\* The arguments tried: those of the pipe spawn, a coin and a die.
RangeArgs == {<<minHeight, maxHeight>>, <<0, 1>>, <<1, 6>>}

InitRNG ==
    /\ app = [p \in Apps |-> Mount(0).app]
    /\ eng = [p \in Apps |-> Mount(0).eng]
    /\ now = [p \in Apps |-> 0]
    /\ peer = [p \in Apps |-> "none"]
    /\ conn = [p \in Apps |-> "none"]
    /\ chan = [p \in Apps |-> << >>]
    /\ lead = 0
    /\ gen \in {NewGen(seed) : seed \in RngSeeds}
    /\ net = NoNet
    /\ last = Idle

\* The k-th range call on instance i, with the arguments a.
Call(i, a) ==
    LET r == range(gen.heap, i, a[1], a[2])
    IN  gen' = [gen EXCEPT !.heap = r.heap, !.out[i] = Append(@, r.value),
                            !.args = IF Len(gen.out[i]) < Len(@) THEN @
                                     ELSE Append(@, a)]

\* Instance i makes its next call: with the arguments the other instance
\* made that call with, or with new ones if it is the first to make it.
RangeCall(i) ==
    LET k == Len(gen.out[i]) + 1
    IN  /\ k <= MaxCalls
        /\ \/ k <= Len(gen.args) /\ Call(i, gen.args[k])
           \/ k > Len(gen.args) /\ \E a \in RangeArgs : Call(i, a)
        /\ UNCHANGED <<app, eng, now, peer, conn, chan, lead, last, net>>

NextRNG == \E i \in Instances : RangeCall(i)

SpecRNG == InitRNG /\ [][NextRNG]_vars

---------------------------------------------------------------------------
(* The matches of a multiplayer session.                                   *)

\* Bound of the properties: the obstacles a player generates in one match.
MaxSpawn == 3

RECURSIVE Advance(_, _)
\* The seed field of an instance constructed with seed after k calls.
Advance(seed, k) == IF k = 0 THEN NewSeededRNG(seed) ELSE RngStep(Advance(seed, k - 1))

\* FreshRng[n][k]: the seed field of an RNG freshly seeded with the seed of
\* the match begun at clock step n, after k obstacles.
FreshRng == [n \in 0..MaxNow |-> [k \in 0..MaxSpawn |-> Advance(DateNow(n), k)]]

\* p plays a match of a multiplayer session.
Plays(p) == app[p].isMultiplayer /\ app[p].gameState = "PLAYING"

\* p's RNG is the one seeded with the seed S = DateNow(n) of p's match and
\* advanced k times, and the obstacles in p's field are the last ones of
\* the first k that S yields.
DrawsFrom(p, n, k) ==
    /\ app[p].gameSeedRef = DateNow(n)
    /\ eng[p].rng = FreshRng[n][k]
    /\ Len(eng[p].pipes) <= k
    /\ \A i \in 1..Len(eng[p].pipes) :
           eng[p].pipes[i].topHeight
               = RangeValue(FreshRng[n][k - Len(eng[p].pipes) + i], minHeight, maxHeight)

\* C1: in every match begun by a START{S}, each peer draws its obstacle
\* heights from an RNG freshly seeded with S, so the k-th height of the host
\* and the k-th height of the guest are the k-th value S yields.
C1_SameHeights ==
    \A p \in Apps :
        Plays(p) => \E n \in 0..MaxNow : \E k \in 0..MaxSpawn : DrawsFrom(p, n, k)

\* Host and guest play the same match and each has generated an obstacle,
\* of the same height.
C1_Witness ==
    /\ Plays("h") /\ Plays("g") /\ app["h"].gameSeedRef = app["g"].gameSeedRef
    /\ Len(eng["h"].pipes) = 1 /\ Len(eng["g"].pipes) = 1
    /\ eng["h"].pipes[1].topHeight = eng["g"].pipes[1].topHeight
    /\ C1_SameHeights

\* The step was a start or restart action of p that began a match of a
\* multiplayer session.
HostBegan(p) ==
    /\ last'.op \in {"start", "restart"} /\ last'.p = p
    /\ app[p].isMultiplayer /\ app'[p].gameState = "COUNTDOWN"

\* The step was the receipt of a START message by p.
GotStart(p) == last'.op = "recv" /\ last'.p = p /\ last'.arg[1].type = "START"

\* C2: every start or rematch of the host takes a seed that neither peer
\* held before and sends it in one START message; the receipt of START{seed}
\* in any state stores seed as the match seed, sets the score to 0 and the
\* opponent shadow to alive with score 0 and moves to COUNTDOWN, which is
\* left for PLAYING (or by the end of the session).
C2_StartResets ==
    [][
        \A p \in Apps :
            /\ HostBegan(p) =>
                   /\ last'.sent = <<"START">>
                   /\ app'[p].gameSeedRef # app[p].gameSeedRef
                   /\ app'[p].gameSeedRef # app[Other(p)].gameSeedRef
                   /\ conn[p] = "open" /\ conn[Other(p)] = "open" =>
                          chan'[Other(p)] = Append(chan[Other(p)],
                                                   [type |-> "START",
                                                    seed |-> app'[p].gameSeedRef])
            /\ GotStart(p) =>
                   /\ app'[p].gameSeedRef = last'.arg[1].seed
                   /\ app'[p].score = 0
                   /\ app'[p].opponentBird = [isAlive |-> TRUE, score |-> 0]
                   /\ app'[p].gameState = "COUNTDOWN"
            /\ app[p].gameState = "COUNTDOWN" /\ app'[p].gameState # "COUNTDOWN" =>
                   \/ app'[p].gameState = "PLAYING"
                   \/ last'.op \in {"quit", "peerError"} /\ app'[p].gameState = "START"
    ]_vars

\* The guest, still spectating its previous match, has received the START
\* of a rematch and is in the countdown with the seed of that rematch.
C2_Witness ==
    /\ last.op = "recv" /\ last.p = "g" /\ last.pre = "SPECTATING"
    /\ last.arg[1] = [type |-> "START", seed |-> DateNow(2)]
    /\ app["g"].gameSeedRef = DateNow(2) /\ app["g"].gameState = "COUNTDOWN"
    /\ app["h"].gameSeedRef = DateNow(2)

\* The last event was a terminal collision of p's avatar (a tick of PLAYING
\* that called onGameOver).
Died(p) == last.op = "die" /\ last.p = p

\* C3: after a terminal collision in PLAYING the state is SPECTATING when
\* the session is multiplayer and the opponent shadow is alive, and
\* GAME_OVER when the shadow is dead or the session is solo.  (The tick
\* changes neither isMultiplayer nor the shadow.)
C3_CollisionState ==
    \A p \in Apps :
        Died(p) =>
            app[p].gameState = IF app[p].isMultiplayer /\ app[p].opponentBird.isAlive
                               THEN "SPECTATING" ELSE "GAME_OVER"

\* Each of the three cases with the state the claim gives it has happened:
\* here the host dies first and spectates.
C3_Witness ==
    /\ Died("h") /\ app["h"].isMultiplayer /\ app["h"].opponentBird.isAlive
    /\ app["h"].gameState = "SPECTATING" /\ app["g"].gameState = "PLAYING"

\* p, spectating, has just received DIE.
GotDie(p) ==
    /\ last.op = "recv" /\ last.p = p /\ last.pre = "SPECTATING"
    /\ last.arg[1].type = "DIE"

\* C4: a player spectating with final score a (the score of its engine,
\* which it passed to onGameOver and which stands while it spectates) who
\* receives DIE{score: b} is in GAME_OVER, is shown b as the opponent's
\* score, and is shown YOU WON when a > b, YOU LOST when a < b, TIED when
\* a = b.
C4_Verdict ==
    \A p \in Apps :
        GotDie(p) =>
            /\ app[p].gameState = "GAME_OVER"
            /\ app[p].opponentScore = last.arg[1].score
            /\ ResultBadge(app[p]) = IF eng[p].score > last.arg[1].score THEN "YOU WON!"
                                      ELSE IF eng[p].score < last.arg[1].score THEN "YOU LOST!"
                                      ELSE "TIED!"

\* The host died first with score 0 and the guest has died with score 1:
\* the host is shown YOU LOST.
C4_Witness ==
    /\ GotDie("h") /\ eng["h"].score = 0 /\ last.arg[1].score = 1
    /\ app["h"].gameState = "GAME_OVER" /\ app["h"].opponentScore = 1
    /\ ResultBadge(app["h"]) = "YOU LOST!"

\* The messages of type t among the types ts.
Count(ts, t) == Cardinality({i \in 1..Len(ts) : ts[i] = t})

\* C5: a death of p's avatar in a connected multiplayer match sends exactly
\* one DIE message, whatever the avatar hit in that tick.
C5_OneDie ==
    \A p \in Apps :
        Died(p) /\ CanSend(app[p]) => Count(last.sent, "DIE") = 1

\* The guest has hit the ground alone and one DIE went out.
C5_Witness ==
    /\ Died("g") /\ CanSend(app["g"]) /\ Count(last.sent, "DIE") = 1
    /\ eng["g"].pipes = << >>

\* C6: a player sends no UPDATE after its DIE, and an opponent shadow that
\* a DIE marked dead becomes alive again only by the START of the next
\* match (received, or sent by the host).
C6_DeadStaysDead ==
    [][
        \A p \in Apps :
            /\ last'.op = "die" /\ last'.p = p =>
                   \A i, j \in 1..Len(last'.sent) :
                       last'.sent[i] = "DIE" /\ last'.sent[j] = "UPDATE" => j < i
            /\ ~app[p].opponentBird.isAlive /\ app'[p].opponentBird.isAlive =>
                   GotStart(p) \/ HostBegan(p)
    ]_vars

\* The host's shadow of the guest, dead since the guest's DIE, is alive
\* again after the host has begun a rematch.
C6_Witness ==
    /\ last.op = "restart" /\ last.p = "h" /\ last.sent = <<"START">>
    /\ app["h"].opponentBird.isAlive /\ app["h"].gameState = "COUNTDOWN"
    /\ app["g"].gameState = "GAME_OVER"

\* The step was the start action of p, a host in WAITING.
HostStart(p) ==
    /\ last'.op = "start" /\ last'.p = p /\ last'.pre = "WAITING" /\ app[p].isHost

\* C7: the start action of a host in WAITING changes no state and sends
\* nothing while isConnected is false; with isConnected true it sends
\* exactly one START, carrying the seed it stored, and moves the host to
\* COUNTDOWN.
C7_StartNeedsLink ==
    [][
        \A p \in Apps :
            HostStart(p) =>
                IF app[p].isConnected
                THEN /\ last'.sent = <<"START">>
                     /\ app'[p].gameState = "COUNTDOWN"
                     /\ conn[p] = "open" /\ conn[Other(p)] = "open" =>
                            chan'[Other(p)] = Append(chan[Other(p)],
                                                     [type |-> "START",
                                                      seed |-> app'[p].gameSeedRef])
                ELSE /\ last'.sent = << >>
                     /\ app' = app /\ eng' = eng /\ chan' = chan
                     /\ peer' = peer /\ conn' = conn
    ]_vars

\* The host has tried to start while the guest's connection was still
\* opening: it is still in WAITING and nothing was sent.
C7_Witness ==
    /\ last.op = "start" /\ last.p = "h" /\ last.pre = "WAITING" /\ last.sent = << >>
    /\ app["h"].gameState = "WAITING" /\ ~app["h"].isConnected
    /\ conn["g"] = "connecting" /\ chan["g"] = << >>

\* p is the guest of a session.
IsGuest(a) == a.isMultiplayer /\ ~a.isHost

\* C8: the restart action of a guest sends RESTART and nothing else and
\* changes no state; the receipt of RESTART changes no state; a guest
\* enters COUNTDOWN only by the receipt of START and PLAYING only by the
\* end of that countdown.
C8_GuestCannotBegin ==
    [][
        \A p \in Apps :
            /\ last'.op = "restart" /\ last'.p = p /\ IsGuest(app[p]) =>
                   /\ app' = app /\ eng' = eng
                   /\ last'.sent = IF app[p].connRef /\ app[p].isConnected
                                   THEN <<"RESTART">> ELSE << >>
            /\ last'.op = "recv" /\ last'.p = p /\ last'.arg[1].type = "RESTART" =>
                   app' = app /\ eng' = eng
            /\ IsGuest(app'[p]) /\ app'[p].gameState = "COUNTDOWN"
                                /\ app[p].gameState # "COUNTDOWN" => GotStart(p)
            /\ IsGuest(app'[p]) /\ app'[p].gameState = "PLAYING"
                                /\ app[p].gameState # "PLAYING" =>
                   app[p].gameState = "COUNTDOWN" /\ last'.op = "countdown"
    ]_vars

\* The host, in GAME_OVER, has received the RESTART of the guest, who is
\* still in GAME_OVER.
C8_Witness ==
    /\ last.op = "recv" /\ last.p = "h" /\ last.arg[1].type = "RESTART"
    /\ app["h"].gameState = "GAME_OVER" /\ app["g"].gameState = "GAME_OVER"
    /\ IsGuest(app["g"])

\* C9: after handleQuit, from whatever state it was called in, the
\* connection is closed and the peer destroyed, connRef and peerRef are
\* cleared, gameState is START, isMultiplayer, isHost and isConnected are
\* false and the room code is empty.
C9_QuitClears ==
    \A p \in Apps :
        last.op \in {"quit", "peerError"} /\ last.p = p =>
            /\ conn[p] = "none" /\ peer[p] = "none" /\ chan[p] = << >>
            /\ ~app[p].connRef /\ ~app[p].peerRef
            /\ app[p].gameState = "START" /\ app[p].roomCode = ""
            /\ ~app[p].isMultiplayer /\ ~app[p].isHost /\ ~app[p].isConnected

\* The host has quit from GAME_OVER with the connection open: the guest's
\* end is closed under it.
C9_Witness ==
    /\ last = [op |-> "quit", p |-> "h", pre |-> "GAME_OVER", sent |-> << >>, arg |-> << >>]
    /\ app["h"].gameState = "START" /\ app["h"].roomCode = "" /\ peer["h"] = "none"
    /\ conn["g"] = "lost" /\ app["g"].isConnected

---------------------------------------------------------------------------
(* The spawn of obstacles on its own: engines reset on a seed and run      *)
(* from one spawn frame to the next.                                       *)

\* The seeds tried: those of SpecRNG and two whose first value is the
\* lowest and the highest that a seed below 8000000 yields (next() leaves
\* the seed field at 22 and at 2147483507).
SpawnSeeds == RngSeeds \cup {Limbs(7463217), Limbs(1114082)}

InitSpawn ==
    /\ app = [p \in Apps |-> Mount(0).app]
    /\ \E seed \in SpawnSeeds :
           eng = [p \in Apps |-> resetGame(NewEngine(seed), TRUE, 0)]
    /\ now = [p \in Apps |-> 0]
    /\ peer = [p \in Apps |-> "none"]
    /\ conn = [p \in Apps |-> "none"]
    /\ chan = [p \in Apps |-> << >>]
    /\ lead = 0
    /\ gen = NewGen(DateNow(0))
    /\ net = NoNet
    /\ last = Idle

\* The frames of p run up to the next multiple of PIPE_SPAWN_RATE and the
\* spawn of lines 144-155 pushes an obstacle.
SpawnStep(p) ==
    /\ Len(eng[p].pipes) < MaxSpawn
    /\ eng' = [eng EXCEPT ![p] = SpawnPipes([@ EXCEPT !.frames = @ + PIPE_SPAWN_RATE])]
    /\ UNCHANGED <<app, now, peer, conn, chan, lead, gen, last, net>>

NextSpawn == \E p \in Apps : SpawnStep(p)

SpecSpawn == InitSpawn /\ [][NextSpawn]_vars

\* C11: the band of the gap top is 50..350 for the configured constants,
\* so it is not empty, and every obstacle spawned has its gap top in it.
C11_Band ==
    /\ minHeight = 50
    /\ maxHeight = CANVAS_HEIGHT - GROUND_HEIGHT - PIPE_GAP - minHeight
    /\ minHeight <= maxHeight
    /\ \A p \in Apps : \A i \in 1..Len(eng[p].pipes) :
           /\ eng[p].pipes[i].topHeight >= minHeight
           /\ eng[p].pipes[i].topHeight <= maxHeight

\* An engine has spawned MaxSpawn obstacles, the first with the gap top at
\* the upper end of the band.
C11_Witness ==
    /\ Len(eng["h"].pipes) = MaxSpawn
    /\ eng["h"].pipes[1].topHeight = maxHeight
    /\ eng["h"].pipes[2].topHeight < maxHeight

\* The trailing edge of obstacle q, not yet behind the avatar, is behind it
\* after the move of one tick.
Crosses(q) ==
    /\ q.x + PIPE_WIDTH >= BIRD_X - BIRD_RADIUS
    /\ q.x - PIPE_SPEED + PIPE_WIDTH < BIRD_X - BIRD_RADIUS

\* The step ran a PLAYING tick of p's engine.
Ran(p) == eng'[p].frames = eng[p].frames + 1

\* C12: a tick raises the engine's score by 1 for each obstacle whose
\* trailing edge passes the avatar in that tick and by nothing else, so an
\* obstacle counts once however long it stays in the field; no other step
\* changes the score but a reset to 0.
C12_ScoresOnce ==
    [][
        \A p \in Apps :
            IF Ran(p)
            THEN eng'[p].score = eng[p].score
                     + Cardinality({i \in 1..Len(eng[p].pipes) : Crosses(eng[p].pipes[i])})
            ELSE \/ eng'[p].score = eng[p].score
                 \/ eng'[p].score = 0 /\ eng'[p].frames = 0 /\ eng'[p].pipes = << >>
    ]_vars

\* The guest plays on with score 1, several ticks after the trailing edge
\* of the first obstacle has passed it, the obstacle still in the field.
C12_Witness ==
    /\ app["g"].gameState = "PLAYING" /\ eng["g"].score = 1
    /\ Len(eng["g"].pipes) = 2 /\ eng["g"].pipes[1].passed
    /\ eng["g"].pipes[1].x + PIPE_WIDTH < BIRD_X - BIRD_RADIUS - 3 * PIPE_SPEED

\* The last event took p from COUNTDOWN into PLAYING: a match begins.
Entered(p) ==
    /\ last.op = "countdown" /\ last.p = p /\ last.pre = "COUNTDOWN"
    /\ app[p].gameState = "PLAYING"

\* The engine e is as resetGame leaves it, the RNG apart.
AtStart(e) ==
    /\ e.y = (CANVAS_HEIGHT \div 2) * Fifths /\ e.velocity = 0 /\ e.rotation = 0
    /\ e.pipes = << >> /\ e.score = 0 /\ e.frames = 0

\* C13: on every entry to PLAYING the avatar is at mid-field height with
\* zero velocity and rotation, the field holds no obstacle and the score
\* and frame counters of the engine are 0.
C13_FreshMatch == \A p \in Apps : Entered(p) => AtStart(eng[p])

\* The guest enters its first match, on the seed of the host's START.
C13_Witness ==
    /\ Entered("g") /\ AtStart(eng["g"]) /\ app["g"].isMultiplayer
    /\ eng["g"].rng = DateNow(1) /\ app["h"].gameSeedRef = DateNow(1)

\* C14: after a jump in PLAYING the velocity is JUMP_STRENGTH, whatever
\* velocity the jump found.
C14_JumpSets ==
    \A p \in Apps :
        last.op = "jump" /\ last.p = p /\ last.pre = "PLAYING" =>
            eng[p].velocity = JUMP_STRENGTH

\* The host has jumped out of a fall at terminal velocity.
C14_Witness ==
    /\ last.op = "jump" /\ last.p = "h" /\ last.pre = "PLAYING"
    /\ last.arg = <<TERMINAL_VELOCITY>> /\ eng["h"].velocity = JUMP_STRENGTH

\* C15: a jump input in a state other than PLAYING changes nothing of the
\* engine (position, velocity, obstacles, score) and nothing of the App
\* (game state included).
C15_JumpGated ==
    [][
        \A p \in Apps :
            last'.op = "jump" /\ last'.p = p /\ last'.pre # "PLAYING" =>
                eng' = eng /\ app' = app
    ]_vars

\* The guest has tapped while spectating, its bird on the ground at
\* terminal velocity: the velocity is what it was.
C15_Witness ==
    /\ last.op = "jump" /\ last.p = "g" /\ last.pre = "SPECTATING"
    /\ app["g"].gameState = "SPECTATING"
    /\ last.arg = <<TERMINAL_VELOCITY>> /\ eng["g"].velocity = TERMINAL_VELOCITY

---------------------------------------------------------------------------
(* A solo flight on its own: the player of h, in PLAYING from a reset,     *)
(* taps at will every few frames.                                          *)

\* Bound of the model: the frames of the flight.
MaxFlight == 99
\* The player may tap every FlapEvery frames.
FlapEvery == 10

\* h after SOLO PLAY and the countdown.
InitFlight ==
    /\ app = [p \in Apps |-> IF p = "h"
                              THEN [Mount(0).app EXCEPT !.gameState = "PLAYING",
                                                        !.countdown = 0]
                              ELSE Mount(0).app]
    /\ eng = [p \in Apps |-> IF p = "h" THEN resetGame(Mount(0).eng, FALSE, 1)
                              ELSE Mount(0).eng]
    /\ now = [p \in Apps |-> IF p = "h" THEN 1 ELSE 0]
    /\ peer = [p \in Apps |-> "none"]
    /\ conn = [p \in Apps |-> "none"]
    /\ chan = [p \in Apps |-> << >>]
    /\ lead = 0
    /\ gen = NewGen(DateNow(0))
    /\ net = NoNet
    /\ last = [op |-> "countdown", p |-> "h", pre |-> "COUNTDOWN",
               sent |-> << >>, arg |-> << >>]

\* A tick of h within the frames of the flight.
FlightTick(p) == p = "h" /\ eng[p].frames < MaxFlight /\ Tick(p)

\* A tap of h in PLAYING.
Flap(p) ==
    /\ p = "h" /\ app[p].gameState = "PLAYING" /\ eng[p].frames % FlapEvery = 0
    /\ eng' = [eng EXCEPT ![p] = jump(@, app[p].gameState)]
    /\ last' = Event("jump", p, << >>, <<eng[p].velocity>>)
    /\ UNCHANGED <<app, now, peer, conn, chan, lead, gen, net>>

NextFlight == \E p \in Apps : FlightTick(p) \/ Flap(p)

SpecFlight == InitFlight /\ [][NextFlight]_vars

\* The velocity and the height that the bird update of a tick gives e.
Fallen(e) ==
    IF e.velocity + GRAVITY > TERMINAL_VELOCITY THEN TERMINAL_VELOCITY
    ELSE e.velocity + GRAVITY
Moved(e) == e.y + Fallen(e)

\* C16: a PLAYING tick whose move puts the upper extent of the avatar at or
\* above the top ends with y = BIRD_RADIUS and velocity 0, and without a
\* game-over event when no obstacle is in the field; any other tick ends
\* at the height of the move; so every PLAYING tick ends with
\* y >= BIRD_RADIUS.
C16_CeilingClamp ==
    [][
        \A p \in Apps :
            Ran(p) =>
                /\ IF Moved(eng[p]) - BIRD_RADIUS * Fifths <= 0
                   THEN /\ eng'[p].y = BIRD_RADIUS * Fifths
                        /\ eng'[p].velocity = 0
                        /\ eng'[p].pipes = << >> =>
                               last'.op # "die" /\ app'[p].gameState = "PLAYING"
                   ELSE eng'[p].y = Moved(eng[p]) /\ eng'[p].velocity = Fallen(eng[p])
                /\ eng'[p].y >= BIRD_RADIUS * Fifths
    ]_vars

\* The bird has been stopped at the top and h plays on.
C16_Witness ==
    /\ app["h"].gameState = "PLAYING" /\ eng["h"].frames > 0
    /\ eng["h"].y = BIRD_RADIUS * Fifths /\ eng["h"].velocity = 0

\* C17: in a multiplayer session in GAME_OVER the opponent shadow is dead
\* (the local avatar is: GAME_OVER is entered from a death or from
\* SPECTATING).
C17_BothDead ==
    \A p \in Apps :
        app[p].gameState = "GAME_OVER" /\ app[p].isMultiplayer =>
            ~app[p].opponentBird.isAlive

\* The host, who died first on an odd frame, has received the guest's DIE
\* and both are in GAME_OVER with a dead shadow.
C17_Witness ==
    /\ GotDie("h") /\ app["h"].gameState = "GAME_OVER" /\ app["g"].gameState = "GAME_OVER"
    /\ app["h"].isMultiplayer /\ app["g"].isMultiplayer
    /\ ~app["h"].opponentBird.isAlive /\ ~app["g"].opponentBird.isAlive

\* C18: a step of p that is not a reset (a START received, or sent by the
\* host when it begins a match) lowers neither the score of the opponent
\* shadow nor the opponent score displayed.
C18_OpponentScoreGrows ==
    [][
        \A p \in Apps :
            ~(GotStart(p) \/ HostBegan(p)) =>
                /\ app'[p].opponentBird.score >= app[p].opponentBird.score
                /\ app'[p].opponentScore >= app[p].opponentScore
    ]_vars

\* The host has seen the guest's score go from 0 to 1 within a match.
C18_Witness ==
    /\ app["h"].opponentBird.score = 1 /\ app["h"].opponentScore = 1
    /\ app["h"].opponentBird.isAlive /\ app["g"].gameState = "PLAYING"
    /\ app["h"].isMultiplayer /\ now["h"] = 1

\* The parts of the engine that belong to the simulation: the local avatar,
\* the obstacles, the score counter and the frame counter.
Simulated(e) == <<e.y, e.velocity, e.rotation, e.pipes, e.score, e.frames>>

\* C19: a tick of p leaves p's opponent shadow as it was; a step that changes
\* p's opponent shadow is a run of p's data handler; and a run of p's data
\* handler leaves p's avatar, obstacles and score counter as they were.
C19_SingleWriter ==
    [][
        \A p \in Apps :
            /\ Tick(p) => app'[p].opponentBird = app[p].opponentBird
            /\ app'[p].opponentBird # app[p].opponentBird => Receive(p)
            /\ Receive(p) => Simulated(eng'[p]) = Simulated(eng[p])
    ]_vars

\* The host is in the middle of a match, with an obstacle in the field, and
\* its data handler has just marked the shadow dead.
C19_Witness ==
    /\ last.op = "recv" /\ last.p = "h" /\ last.arg[1].type = "DIE"
    /\ last.pre = "PLAYING" /\ app["h"].gameState = "PLAYING"
    /\ ~app["h"].opponentBird.isAlive
    /\ eng["h"].frames > PIPE_SPAWN_RATE /\ eng["h"].pipes # << >>

\* C20: a tick of p in a state other than PLAYING leaves velocity, obstacles,
\* generator, score and frame counters, the App's score and game state as
\* they were and sends nothing, moving the avatar only to the idle position of
\* START and WAITING; as long as p is SPECTATING its avatar, obstacles and
\* counters do not change, and an UPDATE received then sets the shadow's and
\* the displayed opponent score to the message's and marks the shadow alive.
C20_IdleTicks ==
    [][
        \A p \in Apps :
            /\ Tick(p) /\ app[p].gameState # "PLAYING" =>
                /\ eng'[p].velocity = eng[p].velocity
                /\ eng'[p].pipes = eng[p].pipes /\ eng'[p].rng = eng[p].rng
                /\ eng'[p].score = eng[p].score /\ eng'[p].frames = eng[p].frames
                /\ \/ eng'[p].y = eng[p].y /\ eng'[p].rotation = eng[p].rotation
                   \/ /\ app[p].gameState \in {"START", "WAITING"}
                      /\ eng'[p].y \in IdleYs /\ eng'[p].rotation = 0
                /\ app' = app /\ chan' = chan /\ last'.op # "die"
            /\ app[p].gameState = "SPECTATING" /\ app'[p].gameState = "SPECTATING" =>
                Simulated(eng'[p]) = Simulated(eng[p])
            /\ Receive(p) /\ app[p].gameState = "SPECTATING"
                          /\ Head(chan[p]).type = "UPDATE" =>
                /\ app'[p].opponentBird = [score |-> Head(chan[p]).s, isAlive |-> TRUE]
                /\ app'[p].opponentScore = Head(chan[p]).s
                /\ app'[p].gameState = "SPECTATING"
    ]_vars

\* The host died at frame 107 and spectates; since then an UPDATE has brought
\* the guest's score 1 while the host's bird and obstacle stayed where they
\* were.
C20_Witness ==
    /\ app["h"].gameState = "SPECTATING" /\ eng["h"].frames = 107
    /\ Len(eng["h"].pipes) = 1 /\ eng["h"].score = 0
    /\ app["h"].opponentBird = [score |-> 1, isAlive |-> TRUE]
    /\ app["h"].opponentScore = 1 /\ last = Idle

\* C21: a step that changes p's high score is a death of p outside a
\* multiplayer session whose final score is greater than the stored value, and
\* the final score is what it stores.
C21_HighScoreSolo ==
    [][
        \A p \in Apps :
            app'[p].highScore # app[p].highScore =>
                /\ last'.op = "die" /\ last'.p = p
                /\ ~app[p].isMultiplayer
                /\ last'.arg[1] > app[p].highScore
                /\ app'[p].highScore = last'.arg[1]
    ]_vars

\* The guest has just died in a solo game with final score 1, its first
\* match since the page was loaded, and 1 is the high score.
C21_Witness ==
    /\ last.op = "die" /\ last.p = "g" /\ last.arg = <<1>>
    /\ ~app["g"].isMultiplayer /\ app["g"].highScore = 1
    /\ now["g"] = 1 /\ now["h"] = 0 /\ peer["g"] = "none"

---------------------------------------------------------------------------
(* The connection under one application, with its timers.  The transport   *)
(* is the environment: the ICE state and the data channel of a connection  *)
(* change by themselves, and the open event of a channel that has opened   *)
(* may come late or never.  A DataConnection object is                     *)
(*   open      conn.open                                                   *)
(*   ice       conn.peerConnection.iceConnectionState, "null" when         *)
(*             conn.peerConnection is null                                 *)
(*   dc        conn.dataChannel.readyState                                 *)
(*   monitor   the interval of lines 111-146 is running                    *)
(*   timeout   the timer of lines 279-291 is pending                       *)
(*   onOpen    handleOpen waits for the open event (line 162)              *)
(*   seen      gameState and isConnected as setupConnection closed over    *)
(*             them                                                        *)
(* close() follows PeerJS: it releases the peer connection and the data    *)
(* channel, and the close event is emitted only for a connection that was  *)
(* open.                                                                   *)

\* The connection objects of one application at a time.
MaxConns == 2

\* What the handlers of a session close over: the state rendered when the
\* user clicked CREATE ROOM or JOIN.
Seen(a) == [gameState |-> a.gameState, isConnected |-> a.isConnected]

\* A connection as setupConnection finds it, lines 92-163.
NewConn(seen, isOpen, isGuest) ==
    [open |-> isOpen, ice |-> IF isOpen THEN "connected" ELSE "new",
     dc |-> IF isOpen THEN "open" ELSE "connecting",
     monitor |-> TRUE, timeout |-> isGuest, onOpen |-> ~isOpen, seen |-> seen]

\* The ICE connection state moves.
IceMoves ==
    {<<"new", "connected">>, <<"new", "failed">>, <<"new", "disconnected">>,
     <<"connected", "completed">>, <<"connected", "disconnected">>,
     <<"completed", "disconnected">>,
     <<"disconnected", "connected">>, <<"disconnected", "failed">>}

\* conn.close(); the listeners of the close event (lines 148-151, 205-208
\* and 296) run when the connection was open.
CloseConn(o) ==
    [o EXCEPT !.open = FALSE, !.ice = "null", !.dc = "closed", !.onOpen = FALSE,
              !.monitor = IF o.open THEN FALSE ELSE @,
              !.timeout = IF o.open THEN FALSE ELSE @]

\* The objects that can still do something.
Live(objs) == SelectSeq(objs, LAMBDA o : o.ice # "null" \/ o.monitor \/ o.timeout)

\* connRef.current?.close() and peerRef.current?.destroy() of handleQuit.
QuitConns(objs) == Live([i \in 1..Len(objs) |-> CloseConn(objs[i])])

\* A poll that never forces the state from the raw data channel.
monitorIntervalNoFallback(a, o) ==
    LET lost == o.ice \in {"failed", "disconnected", "closed"}
        a1 == IF o.ice \in {"connected", "completed"} /\ o.open /\ ~o.seen.isConnected
              THEN handleOpen(a) ELSE a
        quits == lost /\ o.seen.gameState \notin {"START", "LOBBY"}
    IN  IF o.ice = "null" THEN [app |-> a, monitor |-> TRUE, quits |-> FALSE]
        ELSE [app |-> IF quits THEN handleQuit(a1)
                      ELSE IF lost THEN [a1 EXCEPT !.isConnected = FALSE] ELSE a1,
              monitor |-> ~lost, quits |-> quits]

\* One run of the interval of lines 111-146 on connection o.
monitorInterval(a, o) ==
    LET lost == o.ice \in {"failed", "disconnected", "closed"}
        a1 == IF o.ice \in {"connected", "completed"}
              THEN IF o.open
                   THEN IF ~o.seen.isConnected THEN handleOpen(a) ELSE a
                   ELSE IF o.dc = "open" THEN handleOpen(a) ELSE a
              ELSE a
        quits == lost /\ o.seen.gameState \notin {"START", "LOBBY"}
    IN  IF o.ice = "null" THEN [app |-> a, monitor |-> TRUE, quits |-> FALSE]
        ELSE [app |-> IF quits THEN handleQuit(a1)
                      ELSE IF lost THEN [a1 EXCEPT !.isConnected = FALSE] ELSE a1,
              monitor |-> ~lost, quits |-> quits]

\* The timer of lines 279-291 quits unless the connection is open or ICE is
\* connected.
TimeoutQuits(o) == ~o.open /\ o.ice \notin {"connected", "completed"}

InitLink ==
    /\ app = [p \in Apps |-> Mount(0).app]
    /\ eng = [p \in Apps |-> Mount(0).eng]
    /\ now = [p \in Apps |-> 0]
    /\ peer = [p \in Apps |-> "none"]
    /\ conn = [p \in Apps |-> "none"]
    /\ chan = [p \in Apps |-> << >>]
    /\ lead = 0
    /\ gen = NewGen(DateNow(0))
    /\ last = Idle
    /\ \E p \in Apps : net = [NoNet EXCEPT !.who = p]

\* A step of the application under study: the others stand still.
Linked(p) == net.who = p /\ UNCHANGED <<now, conn, chan, lead, gen>>

\* CREATE ROOM, lines 215-254.
LinkCreate(p) ==
    /\ Linked(p) /\ p = "h" /\ app[p].gameState = "START"
    /\ Finish(p, handleCreateGame(app[p]), eng[p], now[p])
    /\ peer' = [peer EXCEPT ![p] = "new"]
    /\ net' = [net EXCEPT !.seen = Seen(app[p])]
    /\ last' = Event("create", p, << >>, << >>)

\* JOIN, lines 256-311.
LinkJoin(p) ==
    /\ Linked(p) /\ p = "g" /\ app[p].gameState = "START"
    /\ Finish(p, handleJoinGame(app[p]), eng[p], now[p])
    /\ peer' = [peer EXCEPT ![p] = "new"]
    /\ net' = [net EXCEPT !.seen = Seen(app[p])]
    /\ last' = Event("join", p, << >>, << >>)

\* The open event of the Peer: the guest connects, starts the timer of lines
\* 279-291 and sets the connection up.
LinkPeerOpen(p) ==
    /\ Linked(p) /\ peer[p] = "new"
    /\ peer' = [peer EXCEPT ![p] = "open"]
    /\ IF app[p].isHost
       THEN UNCHANGED <<app, eng, net>>
       ELSE /\ Len(net.obj) < MaxConns
            /\ net' = [net EXCEPT !.obj = Append(@, NewConn(net.seen, FALSE, TRUE))]
            /\ Finish(p, setupConnection(app[p]), eng[p], now[p])
    /\ last' = Event("peerOpen", p, << >>, << >>)

\* The connection event of the host's Peer, lines 234-239; the connection
\* may be open already (lines 157-160).  One guest at a time connects.
LinkConnection(p) ==
    /\ Linked(p) /\ app[p].isHost /\ peer[p] = "open" /\ Len(net.obj) < MaxConns
    /\ \A i \in 1..Len(net.obj) : net.obj[i].ice = "null"
    /\ \E isOpen \in BOOLEAN :
        /\ net' = [net EXCEPT !.obj = Append(@, NewConn(net.seen, isOpen, FALSE))]
        /\ Finish(p, IF isOpen THEN handleOpen(setupConnection(app[p]))
                     ELSE setupConnection(app[p]), eng[p], now[p])
    /\ last' = Event("connection", p, << >>, << >>)
    /\ UNCHANGED peer

\* The transport: the ICE state of a connection moves.
IceChange(p) ==
    /\ Linked(p)
    /\ \E i \in 1..Len(net.obj) : \E m \in IceMoves :
        /\ net.obj[i].ice = m[1]
        /\ net' = [net EXCEPT !.obj[i].ice = m[2]]
    /\ last' = Idle
    /\ UNCHANGED <<app, eng, peer>>

\* The transport: the data channel of a connection opens.
ChannelOpens(p) ==
    /\ Linked(p)
    /\ \E i \in 1..Len(net.obj) :
        /\ net.obj[i].dc = "connecting" /\ net.obj[i].ice \in {"connected", "completed"}
        /\ net' = [net EXCEPT !.obj[i].dc = "open"]
    /\ last' = Idle
    /\ UNCHANGED <<app, eng, peer>>

\* The open event of a connection: conn.open becomes true, the timer is
\* cleared (line 294) and handleOpen runs (line 162).
OpenEvent(p) ==
    /\ Linked(p)
    /\ \E i \in 1..Len(net.obj) :
        /\ net.obj[i].dc = "open" /\ ~net.obj[i].open
        /\ net' = [net EXCEPT !.obj[i].open = TRUE, !.obj[i].timeout = FALSE]
        /\ Finish(p, IF net.obj[i].onOpen THEN handleOpen(app[p]) ELSE app[p],
                  eng[p], now[p])
    /\ last' = Event("open", p, << >>, << >>)
    /\ UNCHANGED peer

\* The close event of a connection the other end has closed, lines 148-151,
\* 204-207 and 296.
CloseEvent(p) ==
    /\ Linked(p)
    /\ \E i \in 1..Len(net.obj) :
        /\ net.obj[i].open
        /\ net' = [net EXCEPT !.obj = Live([@ EXCEPT ![i] = CloseConn(@)])]
    /\ Finish(p, OnConnClose(app[p]), eng[p], now[p])
    /\ last' = Event("connClose", p, << >>, << >>)
    /\ UNCHANGED peer

\* The error event of a connection, lines 152-155, 209-212 and 295.
ErrorEvent(p) ==
    /\ Linked(p)
    /\ \E i \in 1..Len(net.obj) :
        /\ net.obj[i].ice # "null"
        /\ net' = [net EXCEPT !.obj[i].monitor = FALSE, !.obj[i].timeout = FALSE]
    /\ Finish(p, OnConnClose(app[p]), eng[p], now[p])
    /\ last' = Event("connError", p, << >>, << >>)
    /\ UNCHANGED peer

\* The interval of lines 111-146 fires on one of the connections.
MonitorPoll(p) ==
    /\ Linked(p)
    /\ \E i \in 1..Len(net.obj) :
        LET o == net.obj[i]
            r == monitorInterval(app[p], o)
        IN  /\ o.monitor
            /\ Finish(p, r.app, eng[p], now[p])
            /\ net' = [net EXCEPT !.obj =
                           IF r.quits THEN QuitConns([@ EXCEPT ![i].monitor = FALSE])
                           ELSE Live([@ EXCEPT ![i].monitor = r.monitor])]
            /\ peer' = IF r.quits THEN [peer EXCEPT ![p] = "none"] ELSE peer
            /\ last' = Event("poll", p, << >>,
                             <<i, IF r.quits THEN "Connection lost" ELSE "">>)

\* The timer of lines 279-291 fires.
ConnectionTimeout(p) ==
    /\ Linked(p)
    /\ \E i \in 1..Len(net.obj) :
        LET o == net.obj[i]
        IN  /\ o.timeout
            /\ Finish(p, IF TimeoutQuits(o) THEN handleQuit(app[p]) ELSE app[p],
                      eng[p], now[p])
            /\ net' = [net EXCEPT !.obj =
                           IF TimeoutQuits(o) THEN QuitConns([@ EXCEPT ![i].timeout = FALSE])
                           ELSE Live([@ EXCEPT ![i].timeout = FALSE])]
            /\ peer' = IF TimeoutQuits(o) THEN [peer EXCEPT ![p] = "none"] ELSE peer
            /\ last' = Event("timeout", p, << >>,
                             <<i, IF TimeoutQuits(o) THEN "Connection timed out" ELSE "">>)

\* The user clicks a button that quits: handleQuit.
LinkQuit(p) ==
    /\ Linked(p) /\ QuitShown(app[p])
    /\ Finish(p, handleQuit(app[p]), eng[p], now[p])
    /\ net' = [net EXCEPT !.obj = QuitConns(@)]
    /\ peer' = [peer EXCEPT ![p] = "none"]
    /\ last' = Event("quit", p, << >>, << >>)

\* The error event of the Peer, lines 241-249 and 301-306.
LinkPeerError(p) ==
    /\ Linked(p) /\ peer[p] # "none"
    /\ Finish(p, handleQuit(app[p]), eng[p], now[p])
    /\ net' = [net EXCEPT !.obj = QuitConns(@)]
    /\ peer' = [peer EXCEPT ![p] = "none"]
    /\ last' = Event("peerError", p, << >>, <<"Connection error">>)

\* START GAME of a connected host, or SOLO PLAY from the menu: handleStart.
LinkStart(p) ==
    /\ Linked(p)
    /\ StartGameShown(app[p]) \/ app[p].gameState = "START"
    /\ Finish(p, handleStart(app[p], now[p]), eng[p], now[p])
    /\ last' = Event("start", p, << >>, << >>)
    /\ UNCHANGED <<peer, net>>

\* The countdown of the application under study.
LinkCountdown(p) == net.who = p /\ CountdownTimer(p)

NextLink ==
    \E p \in Apps :
        \/ LinkCreate(p) \/ LinkJoin(p) \/ LinkPeerOpen(p) \/ LinkConnection(p)
        \/ IceChange(p) \/ ChannelOpens(p) \/ OpenEvent(p)
        \/ CloseEvent(p) \/ ErrorEvent(p)
        \/ MonitorPoll(p) \/ ConnectionTimeout(p)
        \/ LinkQuit(p) \/ LinkPeerError(p) \/ LinkStart(p) \/ LinkCountdown(p)

SpecLink == InitLink /\ [][NextLink]_vars

\* The step was the open event of a connection on which handleOpen listens.
Opened(p) ==
    /\ last'.op = "open" /\ last'.p = p
    /\ \E i \in 1..Len(net.obj) :
        net.obj[i].onOpen /\ ~net.obj[i].open /\ net'.obj[i].open

\* The step was a poll of a connection whose ICE state is connected or
\* completed while the connection or its raw data channel is open.
PolledUsable(p) ==
    /\ last'.op = "poll" /\ last'.p = p
    /\ LET o == net.obj[last'.arg[1]]
       IN  o.ice \in {"connected", "completed"} /\ (o.open \/ o.dc = "open")

PolledLost(p) ==
    /\ last'.op = "poll" /\ last'.p = p
    /\ net.obj[last'.arg[1]].ice \in {"failed", "disconnected", "closed"}

\* C23: a poll that finds the ICE state failed, disconnected or closed while
\* the session is in a state other than START tears the session down: the
\* state is START, the session is no longer a multiplayer session, peer and
\* connection are gone, and the user is told.
C23_PollTearsDown ==
    [][
        \A p \in Apps :
            PolledLost(p) /\ app[p].gameState # "START" =>
                /\ app'[p] = handleQuit(app[p])
                /\ peer'[p] = "none" /\ ~app'[p].connRef /\ ~app'[p].peerRef
                /\ last'.arg[2] = "Connection lost"
    ]_vars

\* A poll has found ICE failed while the host was in its countdown.
C23_Witness ==
    /\ last.op = "poll" /\ last.p = "h" /\ last.pre = "COUNTDOWN"
    /\ net.obj[last.arg[1]].ice = "failed" /\ ~net.obj[last.arg[1]].monitor

\* C24: the close event of p's connection in a multiplayer session tears the
\* session down: the state is START, the session is no longer a multiplayer
\* session and peer and connection are gone.
C24_CloseTearsDown ==
    [][
        \A p \in Apps :
            last'.op = "connClose" /\ last'.p = p /\ app[p].isMultiplayer =>
                /\ app'[p].gameState = "START"
                /\ ~app'[p].isMultiplayer /\ ~app'[p].isConnected
                /\ ~app'[p].connRef /\ ~app'[p].peerRef /\ peer'[p] = "none"
    ]_vars

\* The host was spectating when its connection closed, and it is spectating
\* still, unconnected.
C24_Witness ==
    /\ last.op = "connClose" /\ last.p = "h" /\ last.pre = "SPECTATING"
    /\ app["h"].gameState = "SPECTATING" /\ ~app["h"].isConnected
    /\ app["h"].isMultiplayer /\ conn["h"] = "closed"

\* C25: when the timer of a connection that has not opened fires, the guest
\* is back in START; and a guest in JOINING whose peer has opened has such a
\* timer pending, so that the attempt ends without the user.
C25_JoinTimesOut ==
    [][
        \A p \in Apps :
            /\ last'.op = "timeout" /\ last'.p = p /\ ~net.obj[last'.arg[1]].open =>
                app'[p].gameState = "START"
            /\ app'[p].gameState = "JOINING" /\ peer'[p] = "open" =>
                \E i \in 1..Len(net'.obj) : net'.obj[i].timeout
    ]_vars

\* The timer fired on a guest in JOINING whose ICE state was still new: the
\* guest is told and is back in START, its peer gone.
C25_Witness ==
    /\ last.op = "timeout" /\ last.p = "g" /\ last.pre = "JOINING"
    /\ last.arg[2] = "Connection timed out"
    /\ app["g"].gameState = "START" /\ peer["g"] = "none" /\ ~app["g"].connRef

\* The step was the firing of a timer (the connection timeout or the poll) of
\* a connection that a quit has closed.
StaleTimer(p) ==
    /\ last'.op \in {"timeout", "poll"} /\ last'.p = p
    /\ net.obj[last'.arg[1]].ice = "null"

\* C26: a timer of a connection closed by a quit changes neither the game
\* state nor the connectivity flag of the session it fires into.
C26_NoStaleTimer ==
    [][
        \A p \in Apps :
            StaleTimer(p) =>
                /\ app'[p].gameState = app[p].gameState
                /\ app'[p].isConnected = app[p].isConnected
    ]_vars

\* The guest left an attempt that had not opened and joined again; the poll
\* of the first attempt's connection has fired into the second attempt, which
\* goes on.
C26_Witness ==
    /\ last.op = "poll" /\ last.p = "g" /\ last.arg[1] = 1
    /\ Len(net.obj) = 2 /\ net.obj[1].ice = "null" /\ net.obj[2].ice # "null"
    /\ app["g"].gameState = "JOINING" /\ peer["g"] = "open"

\* C27: after the error event of p's Peer, in whatever state it came, p is in
\* START outside any multiplayer session, its peer and its connection are
\* gone and nothing is in flight to it.
C27_PeerErrorQuits ==
    [][
        \A p \in Apps :
            last'.op = "peerError" /\ last'.p = p =>
                /\ app'[p].gameState = "START"
                /\ ~app'[p].isMultiplayer /\ ~app'[p].isHost /\ ~app'[p].isConnected
                /\ ~app'[p].peerRef /\ ~app'[p].connRef /\ app'[p].roomCode = ""
                /\ peer'[p] = "none" /\ conn'[p] = "none" /\ chan'[p] = << >>
                /\ app'[p].highScore = app[p].highScore
    ]_vars

\* The Peer of the guest failed while the guest was playing a match that it
\* led by one point: the guest is at the menu with the engine reset, its
\* peer and connection gone.
C27_Witness ==
    /\ last.op = "peerError" /\ last.p = "g" /\ last.pre = "PLAYING"
    /\ app["g"].gameState = "START" /\ app["g"].score = 1
    /\ eng["g"].frames = 0 /\ eng["g"].pipes = << >>
    /\ peer["g"] = "none" /\ conn["g"] = "none"

---------------------------------------------------------------------------
(* A first match in which the send of an UPDATE may throw.                 *)

\* A catch block that takes a failed send for a lost connection.
handleNetworkUpdateGivesUp(a) == [a EXCEPT !.isConnected = FALSE]

\* The catch block of handleNetworkUpdate, lines 390-392: empty.
handleNetworkUpdateCatch(a) == a

RECURSIVE ApplyCallsSendFails(_, _, _)
\* The App's callbacks for the calls of one tick when the send of
\* handleNetworkUpdate (line 389) throws: nothing is sent for that call and
\* its catch block runs.
ApplyCallsSendFails(c, r, calls) ==
    IF calls = << >> THEN r
    ELSE LET k == calls[1]
             r1 == IF k.fn = "onScoreUpdate"
                   THEN [r EXCEPT !.app = handleScoreUpdate(r.app, k.score)]
                   ELSE IF k.fn = "onGameOver"
                   THEN [r EXCEPT !.app = handleGameOver(c, r.app, k.score),
                                  !.sent = @ \o handleGameOverSends(c, k.score)]
                   ELSE IF CanSend(c)
                   THEN [r EXCEPT !.app = handleNetworkUpdateCatch(r.app)]
                   ELSE r
         IN  ApplyCallsSendFails(c, r1, Tail(calls))

\* A PLAYING tick of p whose pass of render is t and whose UPDATE was not
\* sent.
PlayedSendFails(p, t) ==
    /\ \E i \in 1..Len(t.calls) : t.calls[i].fn = "onNetworkUpdate"
    /\ Called(p, t, ApplyCallsSendFails(app[p], [app |-> app[p], sent |-> << >>], t.calls))

\* The frames at which a send may throw.
FailFrames == {4, 40, 230, 232, 234, 236, 238, 240}

\* One pass of render in a connected match, the send of its UPDATE throwing.
TickSendFails(p) ==
    /\ UNCHANGED <<gen, net>>
    /\ app[p].gameState = "PLAYING" /\ CanSend(app[p])
    /\ eng[p].frames + 1 \in FailFrames
    /\ PlayedSendFails(p, PlayingTick(eng[p], app[p].isMultiplayer))

NextSend ==
    \E p \in Apps :
        \/ CreateGame(p) \/ JoinGame(p) \/ PeerOpen(p) \/ Connection(p) \/ ConnOpen(p)
        \/ StartGame(p) \/ CountdownTimer(p)
        \/ Tick(p) \/ TickSendFails(p) \/ Jump(p) \/ Receive(p)

SpecSend == Init /\ [][NextSend]_vars

\* What a PLAYING tick of p makes of p's application when every send
\* succeeds.
Sending(p, t) ==
    Commit(app[p], ApplyCalls(app[p], [app |-> app[p], sent |-> << >>], t.calls).app,
           EngineOf(t), now[p])

\* C28: a tick of p whose UPDATE send throws leaves p's application and
\* engine as the same tick leaves them when the send succeeds: connected, in
\* PLAYING unless the bird died in this tick, the frame counted, and no
\* UPDATE on its way.
C28_SendFailureSwallowed ==
    [][
        \A p \in Apps :
            TickSendFails(p) =>
                /\ app'[p] = Sending(p, PlayingTick(eng[p], app[p].isMultiplayer)).app
                /\ eng'[p] = Sending(p, PlayingTick(eng[p], app[p].isMultiplayer)).eng
                /\ app'[p].isConnected /\ eng'[p].frames = eng[p].frames + 1
                /\ last'.op # "die" => app'[p].gameState = "PLAYING"
                /\ Count(TypesOf(chan'[Other(p)]), "UPDATE")
                       <= Count(TypesOf(chan[Other(p)]), "UPDATE")
    ]_vars

\* The guest is at frame 240 with score 1 and connected, playing on, while
\* the host's shadow still shows score 0 and nothing is in flight: the
\* UPDATEs since the guest scored were not sent.
C28_Witness ==
    /\ app["g"].gameState = "PLAYING" /\ app["g"].isConnected
    /\ eng["g"].frames = 240 /\ eng["g"].score = 1 /\ app["g"].score = 1
    /\ app["h"].opponentBird.score = 0 /\ app["h"].opponentScore = 0
    /\ chan["h"] = << >> /\ conn["h"] = "open"

---------------------------------------------------------------------------
(* The arithmetic of next(), src/utils.ts line 17.                         *)

\* (seed * 1103515245 + 12345) mod 2^31 over the integers, no rounding.
ExactStep(seed) == Limbs(Mod2p31(BigAdd(BigMul(seed, Limbs(LCG_A)), Limbs(LCG_C))))

\* C29: every call of next() leaves the seed field of the instance at
\* exactly (seed * 1103515245 + 12345) mod 2^31 of the seed field before
\* the call, for every seed the program constructs an instance with, the
\* clock values included.
C29_ExactLCG ==
    [][\A i \in Instances :
          RangeCall(i) => gen'.heap[i] = ExactStep(gen.heap[i])]_vars

\* The calls instance i has made so far.
Calls(i) == 1..Len(gen.out[i])

\* C30: whatever the seed and however many calls have been made, the seed
\* field next() leaves is a natural below 2^31, so that the value it
\* returns, seed / 2^31, is at least 0 and below 1, and every range(min,
\* max) call with min <= max has returned an integer from min to max.
C30_InRange ==
    \A i \in Instances :
        /\ Calls(i) # {} => BitLen(gen.heap[i]) <= 31
        /\ \A k \in Calls(i) :
              gen.args[k][1] <= gen.args[k][2]
                  => gen.out[i][k] \in gen.args[k][1]..gen.args[k][2]

\* An instance seeded with a clock value above 2^31 has made all its
\* calls, and they returned the least and the greatest value of a range.
C30_Witness ==
    /\ BitLen(gen.seed) > 31
    /\ Len(gen.out["a"]) = MaxCalls
    /\ \E k \in Calls("a") : gen.out["a"][k] = gen.args[k][1]
    /\ \E k \in Calls("a") : gen.out["a"][k] = gen.args[k][2]

---------------------------------------------------------------------------
(* The countdown, src/App.tsx lines 78-88.                                 *)

\* This step takes p into COUNTDOWN: from another state, or again by a
\* START received during the countdown.
EntersCountdown(p) ==
    /\ app'[p].gameState = "COUNTDOWN"
    /\ \/ app[p].gameState # "COUNTDOWN"
       \/ Receive(p) /\ Head(chan[p]).type = "START"

\* This step is a quit of p: the quit button or the error of the Peer.
Quits(p) == last'.p = p /\ last'.op \in {"quit", "peerError"}

---------------------------------------------------------------------------
(* The end of a match.                                                     *)

\* The connection between the two is up and nothing is in flight.
Settled ==
    /\ conn["h"] = "open" /\ conn["g"] = "open"
    /\ chan["h"] = << >> /\ chan["g"] = << >>

\* The avatar of p has died in the match: p watches or is at the panel.
Over(p) == app[p].isMultiplayer /\ app[p].gameState \in {"SPECTATING", "GAME_OVER"}

\* C32: when both avatars have died in a match, the connection is still up
\* and every DIE and UPDATE has been delivered, both peers are in
\* GAME_OVER: none is left in SPECTATING, whatever the order of the deaths
\* and of the deliveries was.
C32_BothGameOver ==
    Settled /\ Over("h") /\ Over("g")
        => app["h"].gameState = "GAME_OVER" /\ app["g"].gameState = "GAME_OVER"


\* Both died on odd frames in the first match; the DIE that came last took
\* its receiver from SPECTATING to GAME_OVER and both are at the panel.
C32_Witness ==
    /\ Settled /\ now["h"] = 1
    /\ app["h"].gameState = "GAME_OVER" /\ app["g"].gameState = "GAME_OVER"
    /\ eng["h"].frames % 2 = 1 /\ eng["g"].frames % 2 = 1
    /\ last.op = "recv" /\ last.pre = "SPECTATING"

---------------------------------------------------------------------------
(* Open detection during a match.                                          *)

\* The states of a match.
MatchStates == {"COUNTDOWN", "PLAYING", "SPECTATING", "GAME_OVER"}

\* This step is one of the ways p detects an open connection: the open
\* event, the already-open check of an incoming connection, or the poll.
DetectsOpen(p) == OpenEvent(p) \/ LinkConnection(p) \/ MonitorPoll(p)

\* C33: once the session is in COUNTDOWN, PLAYING, SPECTATING or GAME_OVER,
\* no open event, already-open check or poll, on the current connection or
\* on a later incoming one, sets gameState to WAITING.
C33_OpenKeepsMatch ==
    [][\A p \in Apps :
          app[p].gameState \in MatchStates /\ DetectsOpen(p)
              => app'[p].gameState # "WAITING"]_vars

\* The poll has found the connection of a connected host open during the
\* countdown, and the countdown goes on.
C33_Witness ==
    /\ last.op = "poll" /\ last.p = "h" /\ last.pre = "COUNTDOWN"
    /\ app["h"].gameState = "COUNTDOWN" /\ app["h"].isConnected
    /\ \E i \in 1..Len(net.obj) : net.obj[i].open /\ net.obj[i].ice = "connected"

---------------------------------------------------------------------------
(* The room of a host and the peers that connect to it, src/App.tsx lines  *)
(* 92-94, 165-202 and 234-239.  net.obj holds the incoming connections in  *)
(* the order they arrived, each with the peer it comes from and whether it *)
(* is open; net.ref is the connection connRef.current points at, the one   *)
(* the host sends on (0: none).  The first peer to connect is the guest    *)
(* "g", every later one a further peer "x".                                *)

\* The messages a peer may send to the host.
PeerMessages ==
    {[type |-> "UPDATE", y |-> 0, s |-> 1], [type |-> "DIE", score |-> 1]}

InitRoom ==
    /\ app = [p \in Apps |-> Mount(0).app]
    /\ eng = [p \in Apps |-> Mount(0).eng]
    /\ now = [p \in Apps |-> 0]
    /\ peer = [p \in Apps |-> "none"]
    /\ conn = [p \in Apps |-> "none"]
    /\ chan = [p \in Apps |-> << >>]
    /\ lead = 0
    /\ gen = NewGen(DateNow(0))
    /\ last = Idle
    /\ net = [who |-> "h", obj |-> << >>, seen |-> NoNet.seen, ref |-> 0]

\* A step of the host that leaves the variables of the other models alone.
InRoom == UNCHANGED <<conn, chan, lead, gen>>

\* CREATE ROOM, lines 215-232: the Peer of the room is registered.
RoomCreate ==
    /\ InRoom /\ app["h"].gameState = "START"
    /\ Finish("h", handleCreateGame(app["h"]), eng["h"], now["h"])
    /\ peer' = [peer EXCEPT !["h"] = "open"]
    /\ last' = Event("create", "h", << >>, << >>)
    /\ UNCHANGED <<now, net>>

\* The connection event of the host's Peer, lines 234-239: setupConnection
\* stores the connection in connRef (line 93) and, if it is open already,
\* runs handleOpen (lines 157-160).
RoomConnection ==
    /\ InRoom /\ app["h"].isHost /\ peer["h"] = "open" /\ Len(net.obj) < MaxConns
    /\ \E isOpen \in BOOLEAN :
        /\ net' = [net EXCEPT
                      !.obj = Append(@, [from |-> IF Len(net.obj) = 0 THEN "g" ELSE "x",
                                         open |-> isOpen, closed |-> FALSE]),
                      !.ref = Len(net.obj) + 1]
        /\ Finish("h", IF isOpen THEN handleOpen(setupConnection(app["h"]))
                       ELSE setupConnection(app["h"]), eng["h"], now["h"])
    /\ last' = Event("connection", "h", << >>, << >>)
    /\ UNCHANGED <<now, peer>>

\* The open event of connection i, line 162: handleOpen.
RoomOpen ==
    /\ InRoom
    /\ \E i \in 1..Len(net.obj) :
        /\ ~net.obj[i].open /\ ~net.obj[i].closed
        /\ net' = [net EXCEPT !.obj[i].open = TRUE]
        /\ last' = Event("open", "h", << >>, <<i>>)
    /\ Finish("h", handleOpen(app["h"]), eng["h"], now["h"])
    /\ UNCHANGED <<now, peer>>

\* The close event of connection i, lines 204-207.
RoomClose ==
    /\ InRoom
    /\ \E i \in 1..Len(net.obj) :
        /\ net.obj[i].open
        /\ net' = [net EXCEPT !.obj[i].open = FALSE, !.obj[i].closed = TRUE]
        /\ last' = Event("connClose", "h", << >>, <<i>>)
    /\ Finish("h", OnConnClose(app["h"]), eng["h"], now["h"])
    /\ UNCHANGED <<now, peer>>

\* START GAME, lines 331-345: the START goes out on connRef.current; the
\* event records the peer it goes to.
RoomStart ==
    /\ InRoom /\ StartGameShown(app["h"])
    /\ Clock("h")
    /\ Finish("h", handleStart(app["h"], now'["h"]), eng["h"], now'["h"])
    /\ last' = Event("start", "h", TypesOf(handleStartSends(app["h"], now'["h"])),
                     <<net.obj[net.ref].from>>)
    /\ UNCHANGED <<peer, net>>

\* The countdown and the frames of the host.
RoomCountdown == net.who = "h" /\ CountdownTimer("h")
RoomTick == net.who = "h" /\ Tick("h")

\* A message of the peer of connection i reaches the data handler that
\* setupConnection registered on it, lines 165-202; the event records the
\* message and the peer.
RoomReceive ==
    /\ InRoom
    /\ \E i \in 1..Len(net.obj) : \E msg \in PeerMessages :
        /\ net.obj[i].open
        /\ Finish("h", OnData(app["h"], msg), eng["h"], now["h"])
        /\ last' = Event("recv", "h", << >>, <<msg, net.obj[i].from>>)
    /\ UNCHANGED <<now, peer, net>>

NextRoom ==
    \/ RoomCreate \/ RoomConnection \/ RoomOpen \/ RoomClose
    \/ RoomStart \/ RoomCountdown \/ RoomTick \/ RoomReceive

SpecRoom == InitRoom /\ [][NextRoom]_vars

\* The connection of the guest is established and the host sends on it.
GuestBound == net.ref = 1 /\ net.obj[1].open

\* C34: while the guest's connection is established, a further incoming
\* connection does not replace the connection the host sends on (the START
\* of the host still goes to the guest), and a message of a further peer
\* changes neither the host's opponent shadow, nor the opponent score it
\* shows, nor its game state.
C34_OneGuest ==
    [][/\ GuestBound /\ RoomConnection => net'.ref = 1
       /\ Len(net.obj) >= 1 /\ net.obj[1].open /\ RoomStart /\ last'.sent # << >>
             => last'.arg = <<"g">>
       /\ Len(net.obj) >= 1 /\ net.obj[1].open
          /\ last'.op = "recv" /\ last'.arg[2] = "x"
             => /\ app'["h"].opponentBird = app["h"].opponentBird
                /\ app'["h"].opponentScore = app["h"].opponentScore
                /\ app'["h"].gameState = app["h"].gameState]_vars

\* With the guest alone in the room, the host, who died first, has got the
\* guest's DIE and is at the panel.
C34_Witness ==
    /\ Len(net.obj) = 1 /\ GuestBound
    /\ last.op = "recv" /\ last.pre = "SPECTATING" /\ last.arg[2] = "g"
    /\ app["h"].gameState = "GAME_OVER" /\ app["h"].opponentScore = 1

---------------------------------------------------------------------------
(* The terminal collision, src/components/GameEngine.tsx lines 175-189.    *)

\* The avatar at height y (fifths of a pixel) overlaps the horizontal
\* extent of obstacle q and reaches above its gap or below it, both with 4
\* pixels of forgiveness.
Overlaps(q, y) ==
    /\ q.x < BIRD_X + BIRD_RADIUS - 4 /\ q.x + PIPE_WIDTH > BIRD_X - BIRD_RADIUS + 4
    /\ \/ y < (q.topHeight + BIRD_RADIUS - 4) * Fifths
       \/ y > (q.topHeight + PIPE_GAP - BIRD_RADIUS + 4) * Fifths

\* The lower extent of the avatar at height y is at or below the ground.
Grounded(y) == y >= (CANVAS_HEIGHT - GROUND_HEIGHT - BIRD_RADIUS) * Fifths

\* The engine e shows a collision.
Collides(e) ==
    \/ \E i \in 1..Len(e.pipes) : Overlaps(e.pipes[i], e.y)
    \/ Grounded(e.y)

\* C35: a PLAYING tick calls onGameOver if and only if, after the tick, the
\* avatar overlaps an obstacle outside its gap or is on the ground, and
\* the call carries the score counter of the engine.
C35_GameOverIffCollision ==
    [][\A p \in Apps :
          Tick(p) /\ app[p].gameState = "PLAYING"
              => /\ (last'.op = "die" /\ last'.p = p) <=> Collides(eng'[p])
                 /\ last'.op = "die" => last'.arg = <<eng'[p].score>>]_vars

\* A player has hit an obstacle in the air, outside its gap, and the
\* game-over event carries the score counter of the engine.
C35_Witness ==
    \E p \in Apps :
        /\ last.op = "die" /\ last.p = p /\ last.arg = <<eng[p].score>>
        /\ ~Grounded(eng[p].y)
        /\ \E i \in 1..Len(eng[p].pipes) : Overlaps(eng[p].pipes[i], eng[p].y)

---------------------------------------------------------------------------
(* The velocity of the avatar, src/components/GameEngine.tsx lines 97-100  *)
(* and 129-134.                                                            *)

\* The step was a tap of p in PLAYING.
Tapped(p) == last'.op = "jump" /\ last'.p = p /\ app[p].gameState = "PLAYING"

\* C36: after every PLAYING tick and after every jump the velocity is from
\* JUMP_STRENGTH to TERMINAL_VELOCITY; a jump leaves it at JUMP_STRENGTH;
\* and a tick that does not end against the top has added GRAVITY to the
\* velocity, cut it at TERMINAL_VELOCITY and moved y by the result.
C36_VelocityBounds ==
    [][\A p \in Apps :
          /\ Ran(p) \/ Tapped(p)
                => /\ eng'[p].velocity >= JUMP_STRENGTH
                   /\ eng'[p].velocity <= TERMINAL_VELOCITY
          /\ Tapped(p) => eng'[p].velocity = JUMP_STRENGTH /\ eng'[p].y = eng[p].y
          /\ Ran(p) /\ eng'[p].y > BIRD_RADIUS * Fifths
                => /\ eng'[p].velocity =
                          IF eng[p].velocity + GRAVITY > TERMINAL_VELOCITY
                          THEN TERMINAL_VELOCITY ELSE eng[p].velocity + GRAVITY
                   /\ eng'[p].y - eng[p].y = eng'[p].velocity]_vars

\* h, who tapped and then fell, falls at the terminal velocity, below the
\* height it tapped at.
C36_Witness ==
    /\ app["h"].gameState = "PLAYING" /\ eng["h"].frames > 40
    /\ eng["h"].velocity = TERMINAL_VELOCITY
    /\ eng["h"].y > (CANVAS_HEIGHT \div 2) * Fifths

---------------------------------------------------------------------------
(* A long solo flight: h plays on past the removal of the first obstacle   *)
(* and the spawn of the third.                                             *)

\* Bound of the model: the frames of the flight.
MaxField == 320

\* A tick of h within the frames of the flight.
FieldTick(p) == p = "h" /\ eng[p].frames < MaxField /\ Tick(p)

NextField == \E p \in Apps : FieldTick(p) \/ Flap(p)

SpecField == InitFlight /\ [][NextField]_vars

\* Obstacle q is abreast of the avatar: their horizontal extents overlap,
\* with the forgiveness, so that q collides wherever the avatar is outside
\* its gap.
Abreast(q) ==
    q.x < BIRD_X + BIRD_RADIUS - 4 /\ q.x + PIPE_WIDTH > BIRD_X - BIRD_RADIUS + 4

\* Where obstacle q of engine e is in engine f one tick later: the index
\* of the obstacle PIPE_SPEED to its left, or 0 if it is gone.  (No two
\* obstacles of a field share an x.)
After(q, f) ==
    IF \E j \in 1..Len(f.pipes) : f.pipes[j].x = q.x - PIPE_SPEED
    THEN CHOOSE j \in 1..Len(f.pipes) : f.pipes[j].x = q.x - PIPE_SPEED
    ELSE 0

\* C37: the life of an obstacle is ordered.  It is spawned unscored; once
\* scored it stays scored and is never abreast of the avatar, so it cannot
\* collide; and a tick removes from the field only obstacles that were
\* scored before.
C37_ObstacleLife ==
    [][\A p \in Apps :
          Ran(p) =>
              /\ \A j \in 1..Len(eng'[p].pipes) :
                    /\ eng'[p].pipes[j].passed => ~Abreast(eng'[p].pipes[j])
                    /\ (\A i \in 1..Len(eng[p].pipes) : After(eng[p].pipes[i], eng'[p]) # j)
                          => ~eng'[p].pipes[j].passed
              /\ \A i \in 1..Len(eng[p].pipes) :
                    /\ After(eng[p].pipes[i], eng'[p]) = 0 => eng[p].pipes[i].passed
                    /\ After(eng[p].pipes[i], eng'[p]) # 0 /\ eng[p].pipes[i].passed
                          => eng'[p].pipes[After(eng[p].pipes[i], eng'[p])].passed]_vars

\* The first obstacle, scored, has just been removed from the field: the
\* second one alone is left, unscored.
C37_Witness ==
    /\ app["h"].gameState = "PLAYING" /\ eng["h"].frames = 250
    /\ eng["h"].score = 1 /\ Len(eng["h"].pipes) = 1 /\ ~eng["h"].pipes[1].passed


\* C38: every obstacle in the field has -PIPE_WIDTH <= x < CANVAS_WIDTH
\* (the field changes only in ticks, so the end of every tick is every
\* state), and the field holds at most 2 obstacles.
C38_FieldBounds ==
    \A p \in Apps :
        /\ Len(eng[p].pipes) <= 2
        /\ \A i \in 1..Len(eng[p].pipes) :
               /\ eng[p].pipes[i].x >= 0 - PIPE_WIDTH
               /\ eng[p].pipes[i].x < CANVAS_WIDTH

\* The third obstacle has just been spawned: with the second one it makes
\* two, the first one having left the field.
C38_Witness ==
    /\ app["h"].gameState = "PLAYING" /\ eng["h"].frames = 300
    /\ Len(eng["h"].pipes) = 2 /\ eng["h"].score = 1
    /\ eng["h"].pipes[2].x = CANVAS_WIDTH - PIPE_SPEED


\* C39: the receipt of UPDATE or RESTART never changes gameState, the local
\* score or the match seed, and the receipt of DIE changes gameState only
\* when it is SPECTATING: a peer still PLAYING keeps playing.
C39_ReceiptKeepsState ==
    [][\A p \in Apps :
          Receive(p) =>
              LET msg == Head(chan[p])
              IN  /\ msg.type \in {"UPDATE", "RESTART"} =>
                         /\ app'[p].gameState = app[p].gameState
                         /\ app'[p].score = app[p].score
                         /\ eng'[p].score = eng[p].score
                         /\ app'[p].gameSeedRef = app[p].gameSeedRef
                  /\ msg.type = "DIE" =>
                         /\ app[p].gameState # "SPECTATING" =>
                                app'[p].gameState = app[p].gameState
                         /\ app[p].gameState = "SPECTATING" =>
                                app'[p].gameState = "GAME_OVER"]_vars

\* A peer still playing has just received the DIE of its opponent.
C39_Witness ==
    \E p \in Apps :
        /\ last.op = "recv" /\ last.p = p /\ last.arg[1].type = "DIE"
        /\ app[p].gameState = "PLAYING" /\ eng[p].frames > 0
        /\ ~app[p].opponentBird.isAlive


\* The messages a step has put on the channel from p to its peer (a send on
\* a connection that is down puts nothing there; the events of start,
\* restart and death record in last.sent what they sent).
Posted(p) ==
    IF Len(chan'[Other(p)]) > Len(chan[Other(p)])
    THEN SubSeq(chan'[Other(p)], Len(chan[Other(p)]) + 1, Len(chan'[Other(p)]))
    ELSE << >>

\* C40: no message is sent unless the session is multiplayer with a
\* connection reference and isConnected = true; only a host sends START
\* and only a guest sends RESTART; a solo session sends nothing and is never
\* in SPECTATING, WAITING or JOINING.
C40_SendsGuarded ==
    [][\A p \in Apps :
          /\ Posted(p) # << >> \/ (last'.p = p /\ last'.sent # << >>) =>
                 app[p].isMultiplayer /\ app[p].connRef /\ app[p].isConnected
          /\ \A i \in 1..Len(Posted(p)) :
                 /\ Posted(p)[i].type = "START" => app[p].isHost
                 /\ Posted(p)[i].type = "RESTART" => ~app[p].isHost
          /\ last'.p = p =>
                 \A i \in 1..Len(last'.sent) :
                     /\ last'.sent[i] = "START" => app[p].isHost
                     /\ last'.sent[i] = "RESTART" => ~app[p].isHost
          /\ ~app'[p].isMultiplayer =>
                 app'[p].gameState \notin {"SPECTATING", "WAITING", "JOINING"}]_vars

\* A solo game has ended in GAME_OVER: its death sent nothing and the
\* channels are empty.
C40_Witness ==
    \E p \in Apps :
        /\ ~app[p].isMultiplayer /\ app[p].gameState = "GAME_OVER"
        /\ last.op = "die" /\ last.p = p /\ last.sent = << >>
        /\ chan["h"] = << >> /\ chan["g"] = << >>

=============================================================================
